---- MODULE Spec2Model ----
(***************************************************************************)
(* Model of the classification request pipeline of rogi-paksh-ai:          *)
(* the per-caller rate limiter (checkRateLimit), the request handlers of   *)
(* the detect-disease and vision-detect edge functions (retry loop,        *)
(* timeout, upstream status handling) and the response validator           *)
(* (parseAndValidateResponse / createFallbackResponse); and the image       *)
(* utilities of the client (analyzeImageQuality, compressImage,            *)
(* preprocessForDetection of lib/imageUtils.ts).                           *)
(***************************************************************************)
EXTENDS Integers, Sequences, FiniteSets, TLC

VARIABLES
    fn,            \* which edge function this isolate runs
    apiKey,        \* whether LOVABLE_API_KEY is configured
    now,           \* Date.now() of the isolate, in ms
    rateLimitMap,  \* Map<string, {count, resetTime}> of this isolate
    winCalls,      \* per key: checkRateLimit calls made in the current window instance
    winAdmits,     \* per key: calls admitted in the current window instance
    lastCall,      \* the latest checkRateLimit call: its key, time, pre-state and result
    admitLog,      \* per key: its admitted calls, where a specification logs them
    inflight,      \* the requests an isolate handles at once, where a specification has several
    pc,            \* where the handler of the current request stands
    req,           \* the current request
    attempt,       \* loop variable of the retry loop
    response,      \* the Response held by the handler (status 0: null)
    lastError,     \* message of lastError ("": null)
    calls,         \* outcome of every callVisionAI made for this request
    delays,        \* every delay(ms) awaited for this request
    envelope,      \* the upstream's answer whose content is given to the parser
    parsed,        \* what the parser returned for it
    res,           \* the Response returned to the caller
    tm,            \* the abort timers of the retry loop, where a specification follows them
    qa,            \* a call of analyzeImageQuality: its image, its promise, its report
    cz,            \* a call of compressImage or preprocessForDetection
    sh             \* a call of applySharpenFilter: its ImageData and the one returned

\* What no step of an edge function changes: its configuration, and the image
\* utilities, which run in the browser
clientVars == <<qa, cz, sh>>
envVars == <<fn, apiKey, clientVars, admitLog, inflight, tm>>
rlVars == <<rateLimitMap, winCalls, winAdmits, lastCall>>
reqVars == <<pc, req, attempt, response, lastError, calls, delays, envelope, parsed, res>>
vars == <<fn, apiKey, now, rateLimitMap, winCalls, winAdmits, lastCall, admitLog, inflight,
          pc, req, attempt, response, lastError, calls, delays, envelope, parsed, res,
          tm, qa, cz, sh>>

----------------------------------------------------------------------------
(* Constants of the three edge functions                                   *)

DETECT == "detect-disease"
VISION == "vision-detect"
LESSON == "generate-lesson"

Functions == {DETECT, VISION, LESSON}

RATE_LIMIT_DETECT == 15
RATE_LIMIT_VISION == 12
RATE_LIMIT_LESSON == 20

RATE_LIMIT(f) ==
    CASE f = DETECT -> RATE_LIMIT_DETECT
      [] f = VISION -> RATE_LIMIT_VISION
      [] f = LESSON -> RATE_LIMIT_LESSON

RATE_WINDOW_MS == 60000

(* Bounds of the model *)
MaxExtraCalls == 2   \* calls made beyond RATE_LIMIT in one window instance
MaxSmallTicks == 1   \* 1 ms clock steps within one window length
MaxWindowTicks == 2  \* RATE_WINDOW_MS clock steps
MaxIdleWindows == 1  \* windows that pass between the requests of a handler
MaxRequests == 2     \* requests an isolate handles at once

Keys == {"10.0.0.1", "unknown"}
Requests == 1..MaxRequests
LoggedKey == "10.0.0.1"   \* the key of the specifications that follow one key

Min(a, b) == IF a <= b THEN a ELSE b

----------------------------------------------------------------------------
(* Rate limiter                                                            *)

\* rateLimitMap.get(clientIP) is undefined
NoRecord(map, clientIP) == clientIP \notin DOMAIN map

\* rateLimitMap.set(clientIP, rec)
MapSet(map, clientIP, rec) ==
    [k \in DOMAIN map \cup {clientIP} |-> IF k = clientIP THEN rec ELSE map[k]]

\* rateLimitMap.get(k), or the absence of a record
RecordOf(map, k) == IF NoRecord(map, k) THEN [count |-> 0, resetTime |-> 0] ELSE map[k]

\* A mutant of WindowOver: the window is over at its reset time (now >= resetTime)
WindowOverAtReset(map, clientIP, t) ==
    NoRecord(map, clientIP) \/ t >= map[clientIP].resetTime

\* !record || now > record.resetTime: the key has no window instance, or its
\* record's reset time has passed.
WindowOver(map, clientIP, t) ==
    NoRecord(map, clientIP) \/ t > map[clientIP].resetTime

\* A mutant of checkRateLimit: the limit test is off by one (count > RATE_LIMIT).
checkRateLimitOffByOne(f, map, clientIP, t) ==
    IF NoRecord(map, clientIP) \/ t > map[clientIP].resetTime
    THEN [ok |-> TRUE,
          map |-> MapSet(map, clientIP, [count |-> 1, resetTime |-> t + RATE_WINDOW_MS])]
    ELSE IF map[clientIP].count > RATE_LIMIT(f)
         THEN [ok |-> FALSE, map |-> map]
         ELSE [ok |-> TRUE,
               map |-> MapSet(map, clientIP,
                              [map[clientIP] EXCEPT !.count = map[clientIP].count + 1])]

\* A mutant of checkRateLimit: the limit is tested before the expiry of the window,
\* so a key that is being rejected stays rejected after its reset time.
checkRateLimitLimitFirst(f, map, clientIP, t) ==
    IF NoRecord(map, clientIP)
    THEN [ok |-> TRUE,
          map |-> MapSet(map, clientIP, [count |-> 1, resetTime |-> t + RATE_WINDOW_MS])]
    ELSE IF map[clientIP].count >= RATE_LIMIT(f)
         THEN [ok |-> FALSE, map |-> map]
         ELSE IF t > map[clientIP].resetTime
              THEN [ok |-> TRUE,
                    map |-> MapSet(map, clientIP,
                                   [count |-> 1, resetTime |-> t + RATE_WINDOW_MS])]
              ELSE [ok |-> TRUE,
                    map |-> MapSet(map, clientIP,
                                   [map[clientIP] EXCEPT !.count = map[clientIP].count + 1])]

\* A mutant of checkRateLimit: a rejected call is counted and extends the window.
checkRateLimitCountsRejected(f, map, clientIP, t) ==
    IF NoRecord(map, clientIP) \/ t > map[clientIP].resetTime
    THEN [ok |-> TRUE,
          map |-> MapSet(map, clientIP, [count |-> 1, resetTime |-> t + RATE_WINDOW_MS])]
    ELSE IF map[clientIP].count >= RATE_LIMIT(f)
         THEN [ok |-> FALSE,
               map |-> MapSet(map, clientIP,
                              [count |-> map[clientIP].count + 1,
                               resetTime |-> t + RATE_WINDOW_MS])]
         ELSE [ok |-> TRUE,
               map |-> MapSet(map, clientIP,
                              [map[clientIP] EXCEPT !.count = map[clientIP].count + 1])]

\* checkRateLimit(clientIP) of edge function f at time t on the map: the value
\* returned (ok) and the map it leaves.
checkRateLimit(f, map, clientIP, t) ==
    IF WindowOver(map, clientIP, t)
    THEN [ok |-> TRUE,
          map |-> MapSet(map, clientIP, [count |-> 1, resetTime |-> t + RATE_WINDOW_MS])]
    ELSE IF map[clientIP].count >= RATE_LIMIT(f)
         THEN [ok |-> FALSE, map |-> map]
         ELSE [ok |-> TRUE,
               map |-> MapSet(map, clientIP,
                              [map[clientIP] EXCEPT !.count = map[clientIP].count + 1])]

NoCall ==
    [key |-> "", at |-> 0, fresh |-> FALSE, prevCount |-> 0, prevCalls |-> 0, ok |-> FALSE]

\* The log of a key: the times of the admitted calls of its current window
\* instance and of the one before it
NoLog == [previous |-> << >>, current |-> << >>]

\* One call of checkRateLimit(clientIP), with the bookkeeping of the window instance.
RateCall(clientIP) ==
    LET r == checkRateLimit(fn, rateLimitMap, clientIP, now)
        fresh == WindowOver(rateLimitMap, clientIP, now)
        made == IF fresh THEN 0 ELSE winCalls[clientIP]
        admits == IF fresh THEN 0 ELSE winAdmits[clientIP]
    IN /\ made < RATE_LIMIT(fn) + MaxExtraCalls
       /\ rateLimitMap' = r.map
       /\ winCalls' = [winCalls EXCEPT ![clientIP] = made + 1]
       /\ winAdmits' = [winAdmits EXCEPT ![clientIP] = admits + (IF r.ok THEN 1 ELSE 0)]
       /\ lastCall' = [key |-> clientIP, at |-> now, fresh |-> fresh,
                       prevCount |-> IF NoRecord(rateLimitMap, clientIP) THEN 0
                                     ELSE rateLimitMap[clientIP].count,
                       prevCalls |-> winCalls[clientIP],
                       ok |-> r.ok]

\* The clock advances by 1 ms.
TickMs ==
    /\ now % RATE_WINDOW_MS < MaxSmallTicks
    /\ now' = now + 1

\* The clock advances by the length of a window.
TickWindow ==
    /\ now \div RATE_WINDOW_MS < MaxWindowTicks
    /\ now' = now + RATE_WINDOW_MS

----------------------------------------------------------------------------
(* Response validator of detect-disease                                    *)

MEDIUM == 70   \* CONFIDENCE_THRESHOLDS.MEDIUM

Languages == {"english", "hindi", "kannada"}

\* A JSON value found in the "confidence" field of the classifier's record:
\* absent, null, a number (sign, integer part, whether it has a fractional
\* part) or a string (what parseInt reads at its start: sign and digits, or
\* nothing).
Undefined == [t |-> "undefined", neg |-> FALSE, int |-> 0, frac |-> FALSE]
Null == [t |-> "null", neg |-> FALSE, int |-> 0, frac |-> FALSE]
Num(n) == [t |-> "number", neg |-> n < 0, int |-> IF n < 0 THEN 0 - n ELSE n, frac |-> FALSE]
Frac(isNeg, n) == [t |-> "number", neg |-> isNeg, int |-> n, frac |-> TRUE]
Str(n) == [t |-> "string", neg |-> n < 0, int |-> IF n < 0 THEN 0 - n ELSE n, frac |-> FALSE]
StrJunk(n) == [t |-> "string", neg |-> FALSE, int |-> n, frac |-> TRUE]
StrNoDigits == [t |-> "string-nodigits", neg |-> FALSE, int |-> 0, frac |-> FALSE]

NaN == [nan |-> TRUE, val |-> 0]
Number(n) == [nan |-> FALSE, val |-> n]

\* parseInt(v): the value is converted to its string form and the leading
\* optionally signed run of digits is read; NaN when there is none. A sign
\* before the digits 0 gives -0, which is the number 0.
parseInt(v) ==
    IF v.t \in {"number", "string"}
    THEN Number(IF v.neg THEN 0 - v.int ELSE v.int)
    ELSE NaN

\* String(confidence) of an integer
String(n) == ToString(n)

\* Lines 207-209 of parseAndValidateResponse: the integer kept as confidence.
NormalizeConfidence(raw) ==
    LET c == parseInt(raw)
        d == IF c.nan \/ c.val < 0 THEN 50 ELSE c.val
    IN IF d > 99 THEN 99 ELSE d

\* A multilingual field of the record: absent, null, a string, or an object with
\* some language keys.
MlAbsent == [t |-> "undefined", langs |-> {}, from |-> "classifier"]
MlString == [t |-> "string", langs |-> {}, from |-> "classifier"]
MlObject(ls) == [t |-> "object", langs |-> ls, from |-> "classifier"]
MlDefault(tag) == [t |-> "object", langs |-> Languages, from |-> tag]

\* !field || typeof field !== 'object' : the field is replaced by the default set
NormalizeMl(field, tag) ==
    IF field.t # "object" THEN MlDefault(tag) ELSE field

\* The expert_consultation field: "undefined", "true", "false" (booleans) or any
\* other value ("yes").
IsBoolean(x) == x \in {"true", "false"}

\* Line 243: the flag is derived from the confidence only when the record's
\* value is not a boolean.
ExpertConsultation(raw, confidence) ==
    IF IsBoolean(raw) THEN raw = "true" ELSE confidence < MEDIUM

\* Default of a string field that is absent or empty ("" stands for both)
OrDefault(x, d) == IF x = "" THEN d ELSE x

\* A mutant of Stamp: the timestamp of the record is kept when it has one
StampIfAbsent(upstream, timestamp) == OrDefault(upstream, timestamp)

\* parsed.timestamp = timestamp: whatever the record holds is overwritten
Stamp(upstream, timestamp) == timestamp

\* The object returned by parseAndValidateResponse for a record p that parsed.
ValidateRecord(p, timestamp) ==
    LET confidence == NormalizeConfidence(p.confidence)
    IN [crop |-> OrDefault(p.crop, "Unknown Crop"),
        issue |-> OrDefault(p.issue, "Unable to Determine"),
        category |-> OrDefault(p.category, "disease"),
        severity |-> OrDefault(p.severity, "Medium"),
        confidence |-> String(confidence),
        description |-> NormalizeMl(p.description, "default"),
        solutions |-> NormalizeMl(p.solutions, "default"),
        tts |-> NormalizeMl(p.tts, "default"),
        timestamp |-> Stamp(p.timestamp, timestamp),
        preventive_tips |-> OrDefault(p.preventive_tips, "default tips"),
        action_urgency |-> OrDefault(p.action_urgency, "within_week"),
        expert_consultation |-> ExpertConsultation(p.expert_consultation, confidence)]

\* A mutant of createFallbackResponse: the result of a "default" record.
createFallbackResponseAsDefault(reason, timestamp) ==
    [crop |-> "Unknown", issue |-> "Detection Incomplete", category |-> "disease",
     severity |-> "Medium", confidence |-> "50",
     description |-> [t |-> "object", langs |-> Languages, from |-> reason],
     solutions |-> MlDefault("fallback"), tts |-> MlDefault("fallback"),
     preventive_tips |-> "Ensure good image quality for accurate detection.",
     action_urgency |-> "routine", expert_consultation |-> FALSE,
     timestamp |-> timestamp]

createFallbackResponse(reason, timestamp) ==
    [crop |-> "Unknown", issue |-> "Detection Incomplete", category |-> "unknown",
     severity |-> "Unknown", confidence |-> "0",
     description |-> [t |-> "object", langs |-> Languages, from |-> reason],
     solutions |-> MlDefault("fallback"), tts |-> MlDefault("fallback"),
     preventive_tips |-> "Ensure good image quality for accurate detection.",
     action_urgency |-> "routine", expert_consultation |-> TRUE,
     timestamp |-> timestamp]

\* A record of the classifier with every field absent
EmptyRecord ==
    [crop |-> "", issue |-> "", category |-> "", severity |-> "",
     confidence |-> Undefined, description |-> MlAbsent, solutions |-> MlAbsent,
     tts |-> MlAbsent, preventive_tips |-> "", action_urgency |-> "",
     expert_consultation |-> "undefined", timestamp |-> "", detected |-> "undefined"]

NoValue == [none |-> TRUE]

\* The classifier's text: a payload, bare, inside a ``` fence, or inside prose
\* that has no braces. The payload is text that is no JSON ("garbage"), a JSON
\* scalar (null, a number, a string, a boolean), a JSON array of scalars, or a
\* JSON object (a record).
Text(wrap, kind, rec) == [wrap |-> wrap, kind |-> kind, rec |-> rec]

\* Prose around the record that has braces of its own, after or before it
BraceWraps == {"braces_after", "braces_before"}

\* The pieces of a text that holds a record: the record, code fences, prose
\* without braces, and a brace pair of the prose (as in "see {note}")
Pieces(text) ==
    CASE text.wrap = "none" -> <<"record">>
      [] text.wrap = "fence" -> <<"fence", "record", "fence">>
      [] text.wrap = "prose" -> <<"prose", "record", "prose">>
      [] text.wrap = "braces_after" -> <<"record", "prose", "braces", "prose">>
      [] text.wrap = "braces_before" -> <<"prose", "braces", "prose", "record">>

\* .replace(/```json\n?/gi, '').replace(/```\n?/gi, '').trim()
Cleaned(text) == SelectSeq(Pieces(text), LAMBDA piece : piece # "fence")

\* cleaned.match(/\{[\s\S]*\}/): the span from the first "{" to the last "}"
\* of the text, or the text itself when there is none
JsonMatch(cleaned) ==
    LET braced == {i \in DOMAIN cleaned : cleaned[i] \in {"record", "braces"}}
        first == CHOOSE i \in braced : \A j \in braced : i <= j
        last == CHOOSE i \in braced : \A j \in braced : i >= j
    IN IF braced = {} THEN cleaned ELSE SubSeq(cleaned, first, last)

\* Lines 187-198: the fences are removed, the span from the first "{" to the
\* last "}" is taken when there is one, and the rest is given to JSON.parse.
\* The outcome is "throws" or the kind of value parsed.
ParseOutcome(text) ==
    CASE text.kind = "object" -> IF JsonMatch(Cleaned(text)) = <<"record">> THEN "object"
                                 ELSE "throws"
      [] text.kind = "garbage" -> "throws"
      [] text.kind \in {"scalar", "array"} ->
           IF text.wrap \in {"prose"} \cup BraceWraps THEN "throws" ELSE text.kind

\* parseAndValidateResponse(envelope, timestamp): whether it throws, and the
\* value it returns with the form JSON.stringify gives it. A scalar has no
\* properties to read (null) or to assign (strict mode): a TypeError. An array
\* takes the fields as properties, which JSON.stringify leaves out.
parseAndValidateResponse(text, timestamp) ==
    LET o == ParseOutcome(text)
    IN CASE o = "object" ->
              [threw |-> FALSE, shape |-> "object",
               value |-> ValidateRecord(text.rec, timestamp)]
         [] o = "array" ->
              [threw |-> FALSE, shape |-> "array",
               value |-> ValidateRecord(EmptyRecord, timestamp)]
         [] OTHER ->
              [threw |-> TRUE, shape |-> "none", value |-> NoValue]

----------------------------------------------------------------------------
(* Response parser of vision-detect                                        *)

\* !v of a JSON value of the confidence domain
Truthy(v) ==
    \/ v.t \in {"string", "string-nodigits"}
    \/ v.t = "number" /\ (v.int # 0 \/ v.frac)

\* Math.min(99, Math.max(0, parseInt(v))): NaN stays NaN
ClampParsed(v) ==
    LET c == parseInt(v)
    IN IF c.nan THEN NaN
       ELSE Number(IF c.val < 0 THEN 0 ELSE IF c.val > 99 THEN 99 ELSE c.val)

\* parseAIResponse on a record that parsed: the detected flag and the confidence
\* it leaves (set: whether the field holds a number or NaN after the call;
\* otherwise it keeps the falsy value it had).
NormalizeVision(p) ==
    LET detected == IF IsBoolean(p.detected) THEN p.detected = "true" ELSE TRUE
        c1 == IF detected /\ ~Truthy(p.confidence) THEN Num(70) ELSE p.confidence
    IN [detected |-> detected,
        set |-> Truthy(c1),
        confidence |-> IF Truthy(c1) THEN ClampParsed(c1) ELSE Number(0),
        raw |-> c1.t]

parseAIResponse(text) ==
    LET o == ParseOutcome(text)
    IN CASE o = "object" ->
              [threw |-> FALSE, shape |-> "object", value |-> NormalizeVision(text.rec)]
         [] o = "array" ->
              [threw |-> FALSE, shape |-> "array", value |-> NormalizeVision(EmptyRecord)]
         [] OTHER ->
              [threw |-> TRUE, shape |-> "none", value |-> NoValue]

\* createErrorResponse(errorType, lang): messages[errorType] || messages.generic,
\* msg[lang] || msg.en
createErrorResponse(errorType, lang) ==
    LET msg == IF errorType \in {"parse_error", "timeout", "generic"}
               THEN errorType ELSE "generic"
    IN [detected |-> FALSE,
        error |-> [msg |-> msg, lang |-> IF lang \in {"en", "hi", "kn"} THEN lang ELSE "en"],
        message |-> msg]

----------------------------------------------------------------------------
(* Request handlers of detect-disease and vision-detect                    *)

MAX_IMAGE_SIZE == 6 * 1024 * 1024
MAX_RETRIES == 2
RETRY_DELAY_MS == 1500
REQUEST_TIMEOUT_MS == 45000
MIN_IMAGE_LENGTH == 5000       \* detect-disease: imageData.length < 5000
MIN_CLEAN_LENGTH == 100        \* vision-detect: cleanBase64.length < 100
DataUriPrefixLength == 23      \* length of "data:image/jpeg;base64,"

\* x-forwarded-for: absent, or a comma-separated list of addresses
NoHeader == << >>

\* req.headers.get("x-forwarded-for")?.split(",")[0]?.trim() || "unknown"
ClientIP(header) ==
    IF header = NoHeader \/ header[1] = "" THEN "unknown" ELSE header[1]

\* new Date().toISOString() at time t
ISO(t) == "T" \o ToString(t)

NullResponse == [ok |-> FALSE, status |-> 0]
HttpResponse(status) == [ok |-> status \in 200..299, status |-> status]

NoRes == [status |-> 0, cause |-> "", body |-> NoValue]
Respond(status, cause, body) == [status |-> status, cause |-> cause, body |-> body]

NoBody == [json |-> FALSE, image |-> [t |-> "undefined", len |-> 0, dataUri |-> FALSE],
           language |-> ""]

Img(len, dataUri) == [t |-> "string", len |-> len, dataUri |-> dataUri]

\* imageBase64.replace(/^data:image\/\w+;base64,/, '').length
CleanLength(img) ==
    IF img.dataUri THEN img.len - DataUriPrefixLength ELSE img.len

\* body?.language || "en"
Language(b) == IF b.language = "" THEN "en" ELSE b.language

\* Error body of detect-disease
ErrorBody(code) == [errorCode |-> code]

\* retryAfter: 60 and the header "Retry-After": "60" of the RATE_LIMITED
\* response of detect-disease, in seconds
RETRY_AFTER_S == 60

\* Error body of vision-detect: { error, detected: false }
VisionError(msg) == [error |-> msg, detected |-> FALSE]

\* The catch of the handler: status 500
InternalError(f, message, timestamp) ==
    IF f = DETECT
    THEN Respond(500, "internal_error",
                 [errorCode |-> "INTERNAL_ERROR"] @@ createFallbackResponse(message, timestamp))
    ELSE Respond(500, "internal_error", createErrorResponse("generic", "en"))

\* What the handler does with the body it has read, up to the retry loop: the
\* response it returns, or NoRes when it goes on to call the classifier.
ValidateInput(f, b, hasKey, timestamp) ==
    CASE ~b.json -> InternalError(f, "Unexpected token", timestamp)
      [] b.json /\ (b.image.t # "string" \/ b.image.len = 0) ->
           Respond(400, "invalid_input",
                   IF f = DETECT THEN ErrorBody("INVALID_INPUT")
                   ELSE VisionError("Image is required"))
      [] b.json /\ b.image.t = "string" /\ b.image.len > MAX_IMAGE_SIZE ->
           Respond(400, "image_too_large",
                   IF f = DETECT THEN ErrorBody("IMAGE_TOO_LARGE")
                   ELSE VisionError("Image too large (max 5MB)"))
      [] OTHER ->
           IF f = DETECT /\ b.image.len < MIN_IMAGE_LENGTH
           THEN Respond(400, "invalid_image", ErrorBody("INVALID_IMAGE"))
           ELSE IF f = VISION /\ CleanLength(b.image) < MIN_CLEAN_LENGTH
           THEN Respond(400, "invalid_image", VisionError("Invalid image data"))
           ELSE IF ~hasKey
           THEN InternalError(f, "AI service not configured", timestamp)
           ELSE NoRes

NoRequest == [method |-> "", clientIP |-> "", timestamp |-> "", body |-> NoBody]
NotParsed == [threw |-> FALSE, shape |-> "none", value |-> NoValue]
NoText == Text("none", "none", EmptyRecord)
NoEnvelope == [t |-> "none", text |-> NoText]

\* JSON.stringify of the parser's result: the own properties of an object; an
\* array gives its elements only, none of the fields.
Stringify(r) == IF r.shape = "array" THEN [array |-> TRUE] ELSE r.value

\* The Fallback Result with status 200 (createErrorResponse in vision-detect)
Fallback(f, cause, reason, errorType, b, timestamp) ==
    IF f = DETECT
    THEN Respond(200, cause, createFallbackResponse(reason, timestamp))
    ELSE Respond(200, cause, createErrorResponse(errorType, Language(b)))

\* A mutant of Rejects: the result of checkRateLimit is ignored
RejectsNever(ok) == FALSE

\* if (!checkRateLimit(clientIP)) return the 429 response
Rejects(ok) == ~ok

\* A mutant of IsPreflight: an OPTIONS request is handled as any other
IsPreflightNever(method) == FALSE

\* req.method === "OPTIONS"
IsPreflight(method) == method = "OPTIONS"

\* A request arrives: the handler runs up to its first await. An OPTIONS request
\* is answered at once; any other request passes the rate limiter first.
Receive(method, header) ==
    LET ip == ClientIP(header)
        admitted == checkRateLimit(fn, rateLimitMap, ip, now).ok
    IN /\ pc \in {"idle", "done"}
       /\ req' = [method |-> method, clientIP |-> ip, timestamp |-> ISO(now), body |-> NoBody]
       /\ attempt' = 0
       /\ response' = NullResponse
       /\ lastError' = ""
       /\ calls' = << >>
       /\ delays' = << >>
       /\ envelope' = NoEnvelope
       /\ parsed' = NotParsed
       /\ IF IsPreflight(method)
          THEN /\ res' = Respond(200, "preflight", NoValue)
               /\ pc' = "done"
               /\ UNCHANGED rlVars
          ELSE /\ RateCall(ip)
               /\ IF ~Rejects(admitted)
                  THEN pc' = "body" /\ res' = NoRes
                  ELSE /\ pc' = "done"
                       /\ res' = Respond(429, "rate_limited",
                                         IF fn = DETECT THEN ErrorBody("RATE_LIMITED")
                                         ELSE VisionError("Too many requests. Please wait and try again."))
       /\ UNCHANGED <<envVars, now>>

\* await req.json() settles: the input is validated and the key is read.
ReadBody(b) ==
    LET out == ValidateInput(fn, b, apiKey, req.timestamp)
    IN /\ pc = "body"
       /\ req' = [req EXCEPT !.body = b]
       /\ res' = out
       /\ pc' = IF out = NoRes THEN "call" ELSE "done"
       /\ UNCHANGED <<envVars, now, rlVars, attempt, response, lastError, calls, delays,
                      envelope, parsed>>

\* A mutant of BackoffDelay: the same wait before every retry
BackoffDelayFlat(a) == RETRY_DELAY_MS

\* RETRY_DELAY_MS * attempt: the wait before retry a
BackoffDelay(a) == RETRY_DELAY_MS * a

\* await delay(RETRY_DELAY_MS * attempt) before a retry
Backoff ==
    /\ pc = "backoff"
    /\ delays' = Append(delays, BackoffDelay(attempt))
    /\ pc' = "call"
    /\ UNCHANGED <<envVars, now, rlVars, req, attempt, response, lastError, calls,
                   envelope, parsed, res>>

Outcomes == {"ok", "http429", "http402", "http500", "http500_unreadable", "timeout", "neterr"}

\* Whether the attempt assigns response (fetch resolved), and with what
Resolved(outcome) == outcome \notin {"timeout", "neterr"}

StatusOf(outcome) ==
    CASE outcome = "ok" -> 200
      [] outcome = "http429" -> 429
      [] outcome = "http402" -> 402
      [] OTHER -> 500

\* Message of the error recorded for a failed attempt: the AbortError of the
\* timeout, the error thrown by fetch or by response.text(), or the non-OK status
ErrorMessage(f, outcome) ==
    CASE outcome = "timeout" -> IF f = DETECT THEN "Request timed out" ELSE "timeout"
      [] outcome = "neterr" -> "fetch failed"
      [] outcome = "http500_unreadable" -> "body stream error"
      [] OTHER -> (IF f = DETECT THEN "AI gateway error: " ELSE "AI error: ")
                  \o ToString(StatusOf(outcome))

\* A mutant of LoopEnds: one attempt less (attempt < MAX_RETRIES)
LoopEndsEarly(a) == a + 1 >= MAX_RETRIES

\* for (attempt = 0; attempt <= MAX_RETRIES; attempt++): after attempt a, the
\* loop is left
LoopEnds(a) == a + 1 > MAX_RETRIES

\* A mutant of Breaks: the loop goes on after an OK response
BreaksNever(resp) == FALSE

\* if (response.ok) break
Breaks(resp) == resp.ok

\* A mutant of IsFatal: 402 is handled as any other non-OK status
IsFatalNever(outcome) == FALSE

\* response.status === 402
IsFatal(outcome) == outcome = "http402"

\* A mutant of IsThrottledOut: the 429 of the last attempt falls through to the
\* test after the loop
IsThrottledOutNever(outcome, a) == FALSE

\* response.status === 429 on the last attempt
IsThrottledOut(outcome, a) == outcome = "http429" /\ a = MAX_RETRIES

\* A mutant of FallbackReason: the recorded error is not passed on
FallbackReasonFixed(err) == "Network error"

\* lastError?.message || "Network error"
FallbackReason(err) == IF err = "" THEN "Network error" ELSE err

\* The end of the retry loop without a break: the test after the loop
AfterLoop(f, resp, err, b, timestamp) ==
    IF resp = NullResponse \/ ~resp.ok
    THEN Fallback(f, "retries_exhausted", FallbackReason(err),
                  IF err = "timeout" THEN "timeout" ELSE "generic", b, timestamp)
    ELSE NoRes

\* await callVisionAI(...) settles with an outcome of the upstream; the handler
\* runs to its next await or to its return.
Call(outcome) ==
    LET resp == IF Resolved(outcome) THEN HttpResponse(StatusOf(outcome)) ELSE response
        err == IF outcome = "ok" \/ outcome = "http429" \/ IsFatal(outcome) THEN lastError
               ELSE ErrorMessage(fn, outcome)
        last == LoopEnds(attempt)
    IN /\ pc = "call"
       /\ outcome = "http500_unreadable" => fn = DETECT
       /\ calls' = Append(calls, outcome)
       /\ response' = resp
       /\ lastError' = err
       /\ CASE Breaks(resp) ->
                 /\ pc' = "readAI"
                 /\ UNCHANGED <<attempt, res>>
            [] ~Breaks(resp) /\ IsThrottledOut(outcome, attempt) ->
                 /\ pc' = "done"
                 /\ res' = Respond(429, "ai_rate_limited",
                                   IF fn = DETECT THEN ErrorBody("AI_RATE_LIMITED")
                                   ELSE VisionError("AI service busy. Try again later."))
                 /\ UNCHANGED attempt
            [] ~Breaks(resp) /\ ~IsThrottledOut(outcome, attempt) /\ IsFatal(outcome) ->
                 /\ pc' = "done"
                 /\ res' = Respond(503, "service_unavailable",
                                   IF fn = DETECT THEN ErrorBody("SERVICE_UNAVAILABLE")
                                   ELSE VisionError("AI service unavailable"))
                 /\ UNCHANGED attempt
            [] OTHER ->
                 /\ attempt' = attempt + 1
                 /\ IF last
                    THEN /\ res' = AfterLoop(fn, resp, err, req.body, req.timestamp)
                         /\ pc' = IF res' = NoRes THEN "readAI" ELSE "done"
                    ELSE /\ pc' = "backoff"
                         /\ UNCHANGED res
       /\ UNCHANGED <<envVars, now, rlVars, req, delays, envelope, parsed>>

\* The parser of the edge function
Parse(f, text, timestamp) ==
    IF f = DETECT THEN parseAndValidateResponse(text, timestamp) ELSE parseAIResponse(text)

\* await response.json() settles with the envelope of the upstream: the content
\* is taken, parsed and answered.
ReadAI(env) ==
    LET r == Parse(fn, env.text, req.timestamp)
    IN /\ pc = "readAI"
       /\ pc' = "done"
       /\ envelope' = env
       /\ CASE env.t \in {"badjson", "null", "nonstring"} ->
                 /\ res' = InternalError(fn, env.t, req.timestamp)
                 /\ parsed' = NotParsed
            [] env.t = "nocontent" ->
                 /\ res' = Fallback(fn, "empty_content", "Empty response from AI",
                                    "generic", req.body, req.timestamp)
                 /\ parsed' = NotParsed
            [] env.t = "text" ->
                 /\ parsed' = r
                 /\ res' = IF r.threw
                           THEN Fallback(fn, "parse_error", "Could not parse AI response",
                                         "parse_error", req.body, req.timestamp)
                           ELSE Respond(200, "validated", Stringify(r))
       /\ UNCHANGED <<envVars, now, rlVars, req, attempt, response, lastError, calls, delays>>

----------------------------------------------------------------------------
(* callVisionAI: the abort timer of a call attempt                         *)

\* The retry loop with its timers: where it stands, its attempt number, the
\* time, every timer set so far (timer k belongs to the AbortController of
\* call k), when the call in flight was issued, and every settled call
NoTimers == [pc |-> "idle", attempt |-> 0, clock |-> 0, timers |-> << >>,
             issuedAt |-> 0, log |-> << >>]

\* setTimeout(() => controller.abort(), timeoutMs) at time t
setTimeout(timers, t) == Append(timers, [setAt |-> t, state |-> "armed"])

\* A mutant of clearTimeout: the timer is left running
clearTimeoutForgotten(timers, id) == timers

\* clearTimeout(timeoutId): no effect on a timer that has fired
clearTimeout(timers, id) ==
    IF timers[id].state = "armed" THEN [timers EXCEPT ![id].state = "cleared"] ELSE timers

Armed(timers) == {i \in DOMAIN timers : timers[i].state = "armed"}

FiresAt(timer) == timer.setAt + REQUEST_TIMEOUT_MS

\* Time can pass up to t: no timer that is still running fires before
NoneFiresBefore(timers, t) == \A i \in Armed(timers) : FiresAt(timers[i]) > t

\* callVisionAI is entered at time t: its controller and its timer are made
\* and the fetch is issued
IssueCall(loop, t) ==
    [loop EXCEPT !.pc = "fetch", !.clock = t, !.issuedAt = t,
                 !.timers = setTimeout(loop.timers, t)]

\* The call in flight settles at time t: the try or the catch block of
\* callVisionAI clears its timer, and the loop of the handler goes on
SettleCall(loop, t, outcome, abortedBy) ==
    LET id == Len(loop.timers)
        ends == \/ outcome = "ok"
                \/ IsThrottledOut(outcome, loop.attempt)
                \/ IsFatal(outcome)
                \/ LoopEnds(loop.attempt)
    IN [loop EXCEPT !.clock = t,
                    !.timers = clearTimeout(@, id),
                    !.log = Append(@, [issuedAt |-> loop.issuedAt, settledAt |-> t,
                                       outcome |-> outcome, abortedBy |-> abortedBy]),
                    !.attempt = IF outcome = "ok" \/ IsThrottledOut(outcome, loop.attempt)
                                   \/ IsFatal(outcome)
                                THEN @ ELSE @ + 1,
                    !.pc = IF ends THEN "done" ELSE "backoff"]

\* The handler reaches the retry loop: attempt 0 is issued without a wait
EnterLoop ==
    /\ tm.pc = "idle"
    /\ tm' = IssueCall(tm, tm.clock)

\* fetch resolves or rejects after a latency: with a response of any status,
\* or with a transport error
FetchSettles(latency, outcome) ==
    LET t == tm.issuedAt + latency
    IN /\ tm.pc = "fetch"
       /\ outcome # "timeout"
       /\ t >= tm.clock
       /\ NoneFiresBefore(tm.timers, t)
       /\ tm' = SettleCall(tm, t, outcome, 0)

\* A running timer fires: it aborts its own controller. The fetch made with
\* that controller, if still in flight, rejects with an AbortError.
TimerFires ==
    \E id \in Armed(tm.timers) :
        LET t == FiresAt(tm.timers[id])
            fired == [tm EXCEPT !.clock = t, !.timers[id].state = "fired"]
        IN /\ NoneFiresBefore(tm.timers, t - 1)
           /\ tm.pc # "done"
           /\ tm' = IF tm.pc = "fetch" /\ id = Len(tm.timers)
                    THEN SettleCall(fired, t, "timeout", id)
                    ELSE fired

\* await delay(RETRY_DELAY_MS * attempt) resolves, and the next call is issued
BackoffEnds ==
    LET t == tm.clock + BackoffDelay(tm.attempt)
    IN /\ tm.pc = "backoff"
       /\ NoneFiresBefore(tm.timers, t)
       /\ tm' = IssueCall(tm, t)

\* What the upstream can take to answer, below the timeout
Latencies == {200, 30000, REQUEST_TIMEOUT_MS - 1}

\* A request in the hands of an isolate: where its handler stands, and its
\* attempt number
NoSlot == [pc |-> "idle", attempt |-> 0]

\* The map that holds the one record rec (none when rec is no record)
AsMap(clientIP, rec) == IF rec.count = 0 THEN << >> ELSE [k \in {clientIP} |-> rec]

\* A mutant of RecordRead: the record is read before the previous call of the
\* key has written its own (the two calls overlap)
RecordReadBeforeLastWrite(clientIP) ==
    IF lastCall.key # clientIP THEN RecordOf(rateLimitMap, clientIP)
    ELSE IF lastCall.fresh THEN RecordOf(<< >>, clientIP)
    ELSE [RecordOf(rateLimitMap, clientIP) EXCEPT !.count = lastCall.prevCount]

\* const record = rateLimitMap.get(clientIP), read in the synchronous run of
\* checkRateLimit that tests and writes it
RecordRead(clientIP) == RecordOf(rateLimitMap, clientIP)

\* Where the handler of a request stands after it is resumed at its await:
\* req.json() settles (validated, or answered 400/500); callVisionAI settles
\* (OK, a final failure, or a failure that is retried); delay() ends;
\* response.json() settles and the response is returned.
AfterAwait(slot) ==
    CASE slot.pc = "body" -> {[slot EXCEPT !.pc = "call"], NoSlot}
      [] slot.pc = "call" ->
           {[slot EXCEPT !.pc = "readAI"], NoSlot} \cup
           (IF LoopEnds(slot.attempt) THEN {}
            ELSE {[slot EXCEPT !.pc = "backoff", !.attempt = slot.attempt + 1]})
      [] slot.pc = "backoff" -> {[slot EXCEPT !.pc = "call"]}
      [] slot.pc = "readAI" -> {NoSlot}
      [] OTHER -> {}

----------------------------------------------------------------------------
(* Image quality analysis of the client (lib/imageUtils.ts)                *)

MIN_BRIGHTNESS == 30
MAX_BRIGHTNESS == 220
MIN_CONTRAST == 20
MIN_SHARPNESS == 15
MIN_QUALITY_SCORE == 40
SAMPLE_SIZE == 400      \* Math.min(img.width, img.height, 400)
MIN_RESOLUTION == 400   \* img.width < 400 || img.height < 400

\* The sum of F(i) for i in lo..hi
RECURSIVE SumOver(_, _, _)
SumOver(F(_), lo, hi) ==
    IF lo > hi THEN 0
    ELSE IF lo = hi THEN F(lo)
    ELSE LET mid == (lo + hi) \div 2
         IN SumOver(F, lo, mid) + SumOver(F, mid + 1, hi)

\* The pixels read from the size x size canvas. The pixels of the model are
\* gray (r = g = b): either all of one level, or given one by one, row by row.
UniformPixels(size, level) ==
    [size |-> size, uniform |-> TRUE, level |-> level, data |-> << >>]
GridPixels(size, levels) ==
    [size |-> size, uniform |-> FALSE, level |-> 0, data |-> levels]

\* 0.299 * r + 0.587 * g + 0.114 * b of pixel i: for a gray pixel, its level
Luma(pixels, i) == IF pixels.uniform THEN pixels.level ELSE pixels.data[i + 1]

\* sum / pixelCount, kept as the fraction
calculateBrightness(pixels) ==
    LET pixelCount == pixels.size * pixels.size
    IN [sum |-> SumOver(LAMBDA i : Luma(pixels, i), 0, pixelCount - 1),
        count |-> pixelCount]

\* Math.sqrt(variance / pixelCount), kept as its parts: with the mean
\* sum / count, (brightness - mean)^2 is (count * brightness - sum)^2 / count^2,
\* and scaled is the sum of the numerators.
calculateContrast(pixels, meanBrightness) ==
    LET pixelCount == pixels.size * pixels.size
        Dev(i) == meanBrightness.count * Luma(pixels, i) - meanBrightness.sum
    IN [scaled |-> SumOver(LAMBDA i : Dev(i) * Dev(i), 0, pixelCount - 1),
        by |-> meanBrightness.count,
        count |-> pixelCount]

\* The Laplacian at the interior pixel idx of the gray image
Laplacian(pixels, size, idx) ==
    LET gray(k) == Luma(pixels, k)
    IN (0 - gray(idx - size - 1)) - gray(idx - size) - gray(idx - size + 1)
       + (0 - gray(idx - 1)) + 8 * gray(idx) - gray(idx + 1)
       + (0 - gray(idx + size - 1)) - gray(idx + size) - gray(idx + size + 1)

\* Math.sqrt(sum / count) / 10, kept as sum and count: the loops visit the
\* interior pixels, (size - 2)^2 of them, none when size < 3 (then 0 / 0).
calculateSharpness(pixels, size) ==
    LET inner == IF size < 3 THEN 0 ELSE size - 2
        Idx(j) == (1 + (j \div inner)) * size + 1 + (j % inner)
        Sq(j) == Laplacian(pixels, size, Idx(j)) * Laplacian(pixels, size, Idx(j))
    IN [sum |-> SumOver(Sq, 0, inner * inner - 1), count |-> inner * inner]

\* brightness < t, brightness > t
BrightnessBelow(b, t) == b.sum < t * b.count
BrightnessAbove(b, t) == b.sum > t * b.count

\* contrast < t, that is scaled / (by^2 * count) < t^2
ContrastBelow(c, t) == (c.scaled \div c.by) \div c.by < t * t * c.count

\* sharpness < t, that is sum / count < (10 t)^2; false for NaN (count = 0)
SharpnessBelow(s, t) == s.count > 0 /\ s.sum \div s.count < 100 * t * t

\* Math.round of the three metrics
RoundBrightness(b) == Number((2 * b.sum + b.count) \div (2 * b.count))

RoundContrast(c) ==
    LET Under(r) == ((4 * c.scaled) \div c.by) \div c.by < (2 * r + 1) * (2 * r + 1) * c.count
    IN Number(CHOOSE r \in 0..128 : Under(r) /\ \A q \in 0..(r - 1) : ~Under(q))

RoundSharpness(s) ==
    LET Under(r) == s.sum \div s.count < 25 * (2 * r + 1) * (2 * r + 1)
    IN IF s.count = 0 THEN NaN
       ELSE Number(CHOOSE r \in 0..204 : Under(r) /\ \A q \in 0..(r - 1) : ~Under(q))

\* One triggered rule of the analysis: what it pushes and what it subtracts
Rule(issue, recommendation, penalty) ==
    <<[issue |-> issue, recommendation |-> recommendation, penalty |-> penalty]>>

\* Check brightness
BrightnessRule(brightness) ==
    IF BrightnessBelow(brightness, MIN_BRIGHTNESS)
    THEN Rule("Image is too dark", "Move to a well-lit area or use flash", 25)
    ELSE IF BrightnessAbove(brightness, MAX_BRIGHTNESS)
    THEN Rule("Image is overexposed", "Reduce lighting or avoid direct sunlight", 20)
    ELSE << >>

\* Check contrast
ContrastRule(contrast) ==
    IF ContrastBelow(contrast, MIN_CONTRAST)
    THEN Rule("Low contrast - details may be hard to detect",
              "Ensure affected area is clearly visible", 20)
    ELSE << >>

\* Check sharpness
SharpnessRule(sharpness) ==
    IF SharpnessBelow(sharpness, MIN_SHARPNESS)
    THEN Rule("Image appears blurry", "Hold camera steady and tap to focus", 30)
    ELSE << >>

\* A mutant of ResolutionRule: both sides must be short
ResolutionRuleBothSides(width, height) ==
    IF width < MIN_RESOLUTION /\ height < MIN_RESOLUTION
    THEN Rule("Low resolution", "Move closer to the plant or use higher resolution", 15)
    ELSE << >>

\* Check resolution
ResolutionRule(width, height) ==
    IF width < MIN_RESOLUTION \/ height < MIN_RESOLUTION
    THEN Rule("Low resolution", "Move closer to the plant or use higher resolution", 15)
    ELSE << >>

\* Math.max(0, Math.min(100, score))
ClampScore(score) == IF score > 100 THEN 100 ELSE IF score < 0 THEN 0 ELSE score

\* The report resolved by img.onload from the three metrics and the size of
\* the image
QualityReport(brightness, contrast, sharpness, width, height) ==
    LET rules == BrightnessRule(brightness) \o ContrastRule(contrast)
                 \o SharpnessRule(sharpness) \o ResolutionRule(width, height)
        score == ClampScore(100 - SumOver(LAMBDA i : rules[i].penalty, 1, Len(rules)))
    IN [isValid |-> score >= MIN_QUALITY_SCORE,
        score |-> score,
        issues |-> [i \in 1..Len(rules) |-> rules[i].issue],
        recommendations |-> [i \in 1..Len(rules) |-> rules[i].recommendation],
        brightness |-> RoundBrightness(brightness),
        contrast |-> RoundContrast(contrast),
        sharpness |-> RoundSharpness(sharpness)]

\* A mutant of createDefaultQualityReport: the score does not follow isValid
createDefaultQualityReportFifty(isValid, issues) ==
    [isValid |-> isValid, score |-> 50, issues |-> issues, recommendations |-> << >>,
     brightness |-> Number(0), contrast |-> Number(0), sharpness |-> Number(0)]

createDefaultQualityReport(isValid, issues) ==
    [isValid |-> isValid, score |-> IF isValid THEN 50 ELSE 0, issues |-> issues,
     recommendations |-> << >>,
     brightness |-> Number(0), contrast |-> Number(0), sharpness |-> Number(0)]

\* The image behind imageDataUrl: whether it decodes (onload) or not (onerror),
\* its size, whether the canvas gives a 2d context, whether getImageData
\* returns, and the gray level(s) of its pixels.
SourceImage(width, height, levels) ==
    [loads |-> TRUE, width |-> width, height |-> height, context |-> TRUE,
     readable |-> TRUE, levels |-> levels]

BrokenImage == [SourceImage(0, 0, <<0>>) EXCEPT !.loads = FALSE]

Min3(a, b, c) == Min(a, Min(b, c))

\* ctx.drawImage of the centred square crop, then ctx.getImageData(0, 0, size,
\* size): a one-level image gives a one-level square; an image given pixel by
\* pixel is square and is its own crop.
getImageData(image, size) ==
    IF Len(image.levels) = 1 THEN UniformPixels(size, image.levels[1])
    ELSE GridPixels(size, image.levels)

NoReport == [none |-> TRUE]
NoMetrics == [none |-> TRUE]
NoAnalysis ==
    [pc |-> "idle", image |-> BrokenImage, promise |-> "none", metrics |-> NoMetrics,
     report |-> NoReport]

\* What img.onload of analyzeImageQuality does: the report it resolves the
\* promise with, or the exception it ends with. getImageData throws for a
\* canvas of size 0 (IndexSizeError) and when the pixels cannot be read; the
\* handler has no try, so the promise is then left pending.
AnalysisOnLoad(image) ==
    LET size == Min3(image.width, image.height, SAMPLE_SIZE)
        pixels == getImageData(image, size)
        brightness == calculateBrightness(pixels)
        contrast == calculateContrast(pixels, brightness)
        sharpness == calculateSharpness(pixels, size)
    IN IF ~image.context
       THEN [promise |-> "resolved", metrics |-> NoMetrics,
             report |-> createDefaultQualityReport(FALSE, <<"Could not analyze image">>)]
       ELSE IF size = 0 \/ ~image.readable
       THEN [promise |-> "pending", metrics |-> NoMetrics, report |-> NoReport]
       ELSE [promise |-> "resolved",
             metrics |-> [brightness |-> brightness, contrast |-> contrast,
                          sharpness |-> sharpness],
             report |-> QualityReport(brightness, contrast, sharpness,
                                      image.width, image.height)]

\* analyzeImageQuality(imageDataUrl): the promise is created, img.src is set
AnalyzeImageQuality(image) ==
    /\ qa.pc = "idle"
    /\ qa' = [pc |-> "loading", image |-> image, promise |-> "pending",
              metrics |-> NoMetrics, report |-> NoReport]

\* img.onload runs
AnalysisLoaded ==
    /\ qa.pc = "loading"
    /\ qa.image.loads
    /\ qa' = [pc |-> "handled", image |-> qa.image] @@ AnalysisOnLoad(qa.image)

\* img.onerror runs
AnalysisFailed ==
    /\ qa.pc = "loading"
    /\ ~qa.image.loads
    /\ qa' = [qa EXCEPT !.pc = "handled", !.promise = "resolved",
                        !.report = createDefaultQualityReport(FALSE, <<"Failed to load image">>)]

----------------------------------------------------------------------------
(* Resizing and compression of the client (lib/imageUtils.ts)              *)

MIN_DIMENSION == 320
MAX_ITERATIONS == 5
TARGET_SIZE == 1024
QUALITY_FLOOR == 40     \* quality > 0.4, in hundredths
QUALITY_STEP == 10      \* quality -= 0.1, in hundredths

\* DEFAULT_OPTIONS; quality in hundredths
DEFAULT_OPTIONS ==
    [maxWidth |-> 1280, maxHeight |-> 1280, quality |-> Number(85), maxSizeKB |-> Number(800)]

\* Math.round(a / b) of integers a >= 0, b > 0
RoundDiv(a, b) == (2 * a + b) \div (2 * b)

\* A mutant of ShrinkToFit: the ratio is applied to every image, also to one
\* that fits in the box
ShrinkToFitAlways(width, height, maxWidth, maxHeight) ==
    IF height = 0 \/ (width # 0 /\ maxWidth * height <= maxHeight * width)
    THEN [width |-> RoundDiv(width * maxWidth, width),
          height |-> RoundDiv(height * maxWidth, width)]
    ELSE [width |-> RoundDiv(width * maxHeight, height),
          height |-> RoundDiv(height * maxHeight, height)]

\* Lines 59-63: the image is scaled down into the box maxWidth x maxHeight by
\* ratio = Math.min(maxWidth / width, maxHeight / height). A side of length 0
\* gives the ratio Infinity, which Math.min never returns here.
ShrinkToFit(width, height, maxWidth, maxHeight) ==
    IF width > maxWidth \/ height > maxHeight
    THEN IF height = 0 \/ (width # 0 /\ maxWidth * height <= maxHeight * width)
         THEN [width |-> RoundDiv(width * maxWidth, width),
               height |-> RoundDiv(height * maxWidth, width)]
         ELSE [width |-> RoundDiv(width * maxHeight, height),
               height |-> RoundDiv(height * maxHeight, height)]
    ELSE [width |-> width, height |-> height]

\* Lines 66-71: scale = MIN_DIMENSION / Math.min(width, height). With a side
\* of length 0 the scale is Infinity and both products are NaN or Infinity;
\* canvas.width and canvas.height are then 0.
EnsureMinimum(width, height) ==
    IF width < MIN_DIMENSION \/ height < MIN_DIMENSION
    THEN IF Min(width, height) = 0
         THEN [width |-> 0, height |-> 0]
         ELSE [width |-> RoundDiv(width * MIN_DIMENSION, Min(width, height)),
               height |-> RoundDiv(height * MIN_DIMENSION, Min(width, height))]
    ELSE [width |-> width, height |-> height]

\* The size of the canvas of compressImage
CompressedSize(width, height, opts) ==
    LET fit == ShrinkToFit(width, height, opts.maxWidth, opts.maxHeight)
    IN EnsureMinimum(fit.width, fit.height)

\* Lines 313-315: scale = Math.min(TARGET_SIZE / width, TARGET_SIZE / height, 1)
PreprocessedSize(width, height) ==
    IF width <= TARGET_SIZE /\ height <= TARGET_SIZE
    THEN [width |-> width, height |-> height]
    ELSE IF width >= height
    THEN [width |-> RoundDiv(width * TARGET_SIZE, width),
          height |-> RoundDiv(height * TARGET_SIZE, width)]
    ELSE [width |-> RoundDiv(width * TARGET_SIZE, height),
          height |-> RoundDiv(height * TARGET_SIZE, height)]

\* result.length > maxSizeBytes, with maxSizeBytes = (maxSizeKB * 1024 * 4) / 3;
\* false when maxSizeKB is no number
OverBudget(length, maxSizeKB) == ~maxSizeKB.nan /\ 3 * length > maxSizeKB.val * 1024 * 4

\* quality > 0.4; false when quality is no number
AboveFloor(quality) == ~quality.nan /\ quality.val > QUALITY_FLOOR

\* quality -= 0.1
Lower(quality) == IF quality.nan THEN NaN ELSE Number(quality.val - QUALITY_STEP)

\* A mutant of LoopContinues: the iterations are not counted
LoopContinuesUncounted(length, maxSizeKB, quality, iterations) ==
    OverBudget(length, maxSizeKB) /\ AboveFloor(quality)

\* The test of the while loop of compressImage
LoopContinues(length, maxSizeKB, quality, iterations) ==
    OverBudget(length, maxSizeKB) /\ AboveFloor(quality) /\ iterations < MAX_ITERATIONS

NoOptions == [maxWidth |-> 0, maxHeight |-> 0, quality |-> NaN, maxSizeKB |-> NaN]
NoResize ==
    [op |-> "none", pc |-> "idle", image |-> BrokenImage, opts |-> NoOptions, promise |-> "none",
     width |-> 0, height |-> 0, quality |-> NaN, iterations |-> 0, encodes |-> << >>]

\* compressImage(imageDataUrl, options) or preprocessForDetection(imageDataUrl):
\* the promise is created, img.src is set
StartResize(op, image, opts) ==
    /\ cz.pc = "idle"
    /\ cz' = [NoResize EXCEPT !.op = op, !.pc = "loading", !.image = image, !.opts = opts,
                              !.promise = "pending"]

\* img.onerror runs: the promise is rejected
ResizeFailed ==
    /\ cz.pc = "loading"
    /\ ~cz.image.loads
    /\ cz' = [cz EXCEPT !.pc = "handled", !.promise = "rejected"]

\* img.onload of compressImage runs up to the while loop: the canvas gets its
\* size, the image is drawn and encoded at opts.quality, where the encoder
\* gives a string of some length.
CompressLoaded(length) ==
    LET size == CompressedSize(cz.image.width, cz.image.height, cz.opts)
    IN /\ cz.op = "compressImage" /\ cz.pc = "loading"
       /\ cz.image.loads
       /\ cz' = IF ~cz.image.context
                THEN [cz EXCEPT !.pc = "handled", !.promise = "rejected",
                                !.width = size.width, !.height = size.height]
                ELSE [cz EXCEPT !.pc = "loop", !.width = size.width, !.height = size.height,
                                !.quality = cz.opts.quality,
                                !.encodes = <<[quality |-> cz.opts.quality, length |-> length]>>]

\* The length of result
ResultLength == cz.encodes[Len(cz.encodes)].length

\* One pass of the while loop: the quality is lowered and the canvas encoded again
Reencode(length) ==
    /\ cz.pc = "loop"
    /\ LoopContinues(ResultLength, cz.opts.maxSizeKB, cz.quality, cz.iterations)
    /\ cz' = [cz EXCEPT !.quality = Lower(cz.quality),
                        !.iterations = cz.iterations + 1,
                        !.encodes = Append(cz.encodes,
                                           [quality |-> Lower(cz.quality), length |-> length])]

\* The while loop ends: resolve(result)
CompressDone ==
    /\ cz.pc = "loop"
    /\ ~LoopContinues(ResultLength, cz.opts.maxSizeKB, cz.quality, cz.iterations)
    /\ cz' = [cz EXCEPT !.pc = "handled", !.promise = "resolved"]

\* img.onload of preprocessForDetection runs: the canvas gets its size; without
\* a context, or when getImageData throws (a canvas with a side of 0, pixels
\* that cannot be read), the promise is rejected; else the image is sharpened,
\* encoded at quality 0.9 and resolved with its metadata.
PreprocessLoaded(length) ==
    LET size == PreprocessedSize(cz.image.width, cz.image.height)
        fails == ~cz.image.context \/ ~cz.image.readable \/ size.width = 0 \/ size.height = 0
    IN /\ cz.op = "preprocessForDetection" /\ cz.pc = "loading"
       /\ cz.image.loads
       /\ cz' = IF fails
                THEN [cz EXCEPT !.pc = "handled", !.promise = "rejected",
                                !.width = size.width, !.height = size.height]
                ELSE [cz EXCEPT !.pc = "handled", !.promise = "resolved",
                                !.width = size.width, !.height = size.height,
                                !.quality = Number(90),
                                !.encodes = <<[quality |-> Number(90), length |-> length]>>]

----------------------------------------------------------------------------
(* Sharpening filter of the client (lib/imageUtils.ts)                     *)

\* A pixel of an ImageData: red, green, blue, alpha
Pixel(r, g, b, a) == <<r, g, b, a>>

\* An ImageData: data holds the pixels row by row
ImageData(width, height, data) == [width |-> width, height |-> height, data |-> data]

\* data[(y * width + x) * 4 + c], for c = 1, 2, 3 (red, green, blue)
Channel(imageData, x, y, c) == imageData.data[y * imageData.width + x + 1][c]

\* The pixels the two nested loops of applySharpenFilter visit
IsInterior(imageData, x, y) ==
    /\ 1 <= x /\ x < imageData.width - 1
    /\ 1 <= y /\ y < imageData.height - 1

\* The sum of the kernel (centre 3, the four direct neighbours -0.5, corners
\* 0) over the neighbourhood of (x, y) in channel c, then
\* Math.max(0, Math.min(255, Math.round(sum))); Math.round rounds a half up.
Convolve(imageData, x, y, c) ==
    LET twice == 6 * Channel(imageData, x, y, c)
                 - Channel(imageData, x, y - 1, c) - Channel(imageData, x - 1, y, c)
                 - Channel(imageData, x + 1, y, c) - Channel(imageData, x, y + 1, c)
        rounded == (twice + 1) \div 2
    IN IF rounded < 0 THEN 0 ELSE IF rounded > 255 THEN 255 ELSE rounded

\* copyPixel(src, dst, idx, width): the four bytes of pixel idx, alpha included
copyPixel(src, idx) == Pixel(src[idx + 1][1], src[idx + 1][2], src[idx + 1][3], src[idx + 1][4])

\* applySharpenFilter(imageData): the interior pixels are convolved and given
\* alpha 255; the pixels of the first and last row and column are then copied
\* from the source. The two sets of pixels are disjoint and cover the image.
applySharpenFilter(imageData) ==
    ImageData(imageData.width, imageData.height,
              [i \in 1..(imageData.width * imageData.height) |->
                  LET x == (i - 1) % imageData.width
                      y == (i - 1) \div imageData.width
                  IN IF IsInterior(imageData, x, y)
                     THEN Pixel(Convolve(imageData, x, y, 1), Convolve(imageData, x, y, 2),
                                Convolve(imageData, x, y, 3), 255)
                     ELSE copyPixel(imageData.data, i - 1)])

NoImageData == ImageData(0, 0, << >>)
NoSharpen == [pc |-> "idle", input |-> NoImageData, output |-> NoImageData]

\* preprocessForDetection has read the canvas: const imageData = ctx.getImageData(...)
ReadCanvas(imageData) ==
    /\ sh.pc = "idle"
    /\ sh' = [NoSharpen EXCEPT !.pc = "read", !.input = imageData]

\* const sharpened = applySharpenFilter(imageData)
Sharpen ==
    /\ sh.pc = "read"
    /\ sh' = [sh EXCEPT !.pc = "sharpened", !.output = applySharpenFilter(sh.input)]

----------------------------------------------------------------------------
(* Inputs                                                                  *)

Headers == {<<"10.0.0.1">>, <<"10.0.0.1", "172.16.0.9">>}
Methods == {"OPTIONS", "POST"}

Images ==
    {[t |-> "undefined", len |-> 0, dataUri |-> FALSE],
     [t |-> "number", len |-> 0, dataUri |-> FALSE],
     Img(0, FALSE),
     Img(MIN_CLEAN_LENGTH - 1, FALSE),
     Img(MIN_CLEAN_LENGTH + DataUriPrefixLength - 1, TRUE),
     Img(MIN_CLEAN_LENGTH + DataUriPrefixLength, TRUE),
     Img(MIN_IMAGE_LENGTH - 1, FALSE),
     Img(MIN_IMAGE_LENGTH, FALSE),
     Img(MAX_IMAGE_SIZE, FALSE),
     Img(MAX_IMAGE_SIZE + 1, FALSE)}

Bodies ==
    {NoBody} \cup [json : {TRUE}, image : Images, language : {"", "kn"}]

\* JSON values of the confidence field: absent, null, "high", "85", "50-99",
\* -5, -0.5, 0, 0.85, 55, 69, 70, 99, 100, 150
Confidences ==
    {Undefined, Null, StrNoDigits, Str(85), StrJunk(50), Num(0 - 5), Frac(TRUE, 0),
     Num(0), Frac(FALSE, 0), Num(55), Num(69), Num(70), Num(99), Num(100), Num(150)}

DetectRecords ==
    [crop : {"", "Tomato"}, issue : {"", "Early Blight"}, category : {"", "pest"},
     severity : {"", "High"}, confidence : Confidences,
     description : {MlAbsent, MlString, MlObject({"english"}), MlObject(Languages)},
     solutions : {MlAbsent, MlObject(Languages)},
     tts : {MlAbsent, MlObject({"hindi", "kannada"})},
     preventive_tips : {"", "Rotate crops"}, action_urgency : {"", "immediate"},
     expert_consultation : {"undefined", "true", "false", "yes"},
     timestamp : {"", "2020-01-01T00:00:00.000Z"}, detected : {"undefined"}]

VisionRecords ==
    {[EmptyRecord EXCEPT !.detected = d, !.confidence = c] :
        d \in {"undefined", "true", "false", "yes"}, c \in Confidences}

GoodRecord ==
    [crop |-> "Tomato", issue |-> "Early Blight", category |-> "pest", severity |-> "High",
     confidence |-> Num(92), description |-> MlObject(Languages),
     solutions |-> MlObject(Languages), tts |-> MlObject(Languages),
     preventive_tips |-> "Rotate crops", action_urgency |-> "immediate",
     expert_consultation |-> "false", timestamp |-> "2020-01-01T00:00:00.000Z",
     detected |-> "true"]

Wraps == {"none", "fence", "prose"} \cup BraceWraps

\* Texts that are no JSON object
OddTexts == {Text(w, k, EmptyRecord) : w \in Wraps, k \in {"garbage", "scalar", "array"}}

\* Texts given to the parser alone
ValidatorTexts(f) ==
    OddTexts \cup
    {Text(w, "object", r) : w \in Wraps \ {"none"},
                            r \in {EmptyRecord, GoodRecord}} \cup
    {Text("none", "object", r) : r \in IF f = DETECT THEN DetectRecords ELSE VisionRecords}

\* Texts the upstream answers a request with
HandlerTexts ==
    {Text("none", "garbage", EmptyRecord), Text("fence", "scalar", EmptyRecord),
     Text("none", "array", EmptyRecord), Text("prose", "object", EmptyRecord),
     Text("fence", "object", GoodRecord),
     Text("none", "object", [GoodRecord EXCEPT !.confidence = Num(55)])}

Envelopes ==
    {[t |-> k, text |-> NoText] : k \in {"badjson", "null", "nonstring", "nocontent"}} \cup
    {[t |-> "text", text |-> x] : x \in HandlerTexts}

\* Images given to analyzeImageQuality: one that does not decode; one for
\* which the canvas gives no context; one whose pixels cannot be read; images
\* with a side of length 0; every 1x1, 2x2 and 3x3 image of black and white
\* pixels; images of one gray level, up to sizes beyond the sample size.
GrayLevels == {0, 128, 255}

UniformSizes == {<<1, 1>>, <<50, 50>>, <<300, 1280>>, <<1280, 720>>}

QualityImages ==
    {BrokenImage,
     [SourceImage(400, 400, <<128>>) EXCEPT !.context = FALSE],
     [SourceImage(400, 400, <<128>>) EXCEPT !.readable = FALSE],
     SourceImage(0, 0, <<0>>), SourceImage(0, 50, <<0>>)} \cup
    {SourceImage(2, 2, g) : g \in [1..4 -> {0, 255}]} \cup
    {SourceImage(3, 3, g) : g \in [1..9 -> {0, 255}]} \cup
    {SourceImage(d[1], d[2], <<v>>) : d \in UniformSizes, v \in GrayLevels}

\* Images given to compressImage and preprocessForDetection
ResizeImages ==
    {BrokenImage, [SourceImage(800, 600, <<128>>) EXCEPT !.context = FALSE]} \cup
    {SourceImage(d[1], d[2], <<128>>) :
        d \in {<<200, 150>>, <<320, 320>>, <<319, 5000>>, <<800, 600>>, <<2000, 1000>>,
               <<1000, 2000>>,
               <<4000, 100>>, <<1, 5000>>}}

\* The options of compressImage after the defaults are filled in
CompressOptions ==
    {DEFAULT_OPTIONS,
     [DEFAULT_OPTIONS EXCEPT !.quality = Number(100), !.maxSizeKB = Number(0)],
     [DEFAULT_OPTIONS EXCEPT !.quality = Number(45)],
     [DEFAULT_OPTIONS EXCEPT !.quality = Number(40)],
     [DEFAULT_OPTIONS EXCEPT !.quality = NaN],
     [DEFAULT_OPTIONS EXCEPT !.maxSizeKB = NaN],
     [DEFAULT_OPTIONS EXCEPT !.maxWidth = 100, !.maxHeight = 100]}

\* Lengths of the data URL an encode gives
EncodedLengths == {50000, 2000000}

\* ImageData given to applySharpenFilter: sizes with and without interior
\* pixels; colours that are flat, a checkerboard, or one bright pixel in the
\* middle; alpha that is opaque everywhere, translucent on the border,
\* translucent in the interior, or transparent everywhere (a canvas is
\* transparent until something opaque is drawn on it).
SharpenSizes == {<<1, 1>>, <<2, 2>>, <<1, 3>>, <<3, 1>>, <<3, 3>>, <<4, 3>>, <<3, 4>>}
ColourPatterns == {"black", "white", "checker", "spot", "ramp"}
AlphaPatterns == {"opaque", "border", "interior", "transparent"}

PatternPixel(width, height, colours, alphas, x, y) ==
    LET border == x = 0 \/ y = 0 \/ x = width - 1 \/ y = height - 1
        level == CASE colours = "black" -> 0
                   [] colours = "white" -> 255
                   [] colours = "checker" -> IF (x + y) % 2 = 0 THEN 255 ELSE 0
                   [] colours = "spot" -> IF x = width \div 2 /\ y = height \div 2 THEN 200 ELSE 10
                   [] colours = "ramp" -> 40 * x + 25 * y
        alpha == CASE alphas = "opaque" -> 255
                   [] alphas = "border" -> IF border THEN 128 ELSE 255
                   [] alphas = "interior" -> IF border THEN 255 ELSE 0
                   [] alphas = "transparent" -> 0
    IN Pixel(level, 255 - level, level \div 2, alpha)

SharpenImages ==
    {ImageData(size[1], size[2],
               [i \in 1..(size[1] * size[2]) |->
                   PatternPixel(size[1], size[2], colours, alphas,
                                (i - 1) % size[1], (i - 1) \div size[1])]) :
        size \in SharpenSizes, colours \in ColourPatterns, alphas \in AlphaPatterns}

----------------------------------------------------------------------------
(* Specifications                                                          *)

IdleRequest ==
    /\ pc = "idle"
    /\ req = NoRequest
    /\ attempt = 0
    /\ response = NullResponse
    /\ lastError = ""
    /\ calls = << >>
    /\ delays = << >>
    /\ envelope = NoEnvelope
    /\ parsed = NotParsed
    /\ res = NoRes
    /\ tm = NoTimers

IdleClient ==
    /\ qa = NoAnalysis
    /\ cz = NoResize
    /\ sh = NoSharpen

EmptyLimiter ==
    /\ now = 0
    /\ rateLimitMap = << >>
    /\ winCalls = [k \in Keys |-> 0]
    /\ winAdmits = [k \in Keys |-> 0]
    /\ lastCall = NoCall
    /\ admitLog = [k \in Keys |-> NoLog]
    /\ inflight = [r \in Requests |-> NoSlot]

\* The clock advances past the end of a window
TickPastWindow ==
    /\ now \div RATE_WINDOW_MS < MaxIdleWindows
    /\ now' = now + RATE_WINDOW_MS + 1
    /\ UNCHANGED <<envVars, rlVars, reqVars>>

InitRL ==
    /\ fn \in Functions
    /\ apiKey = TRUE
    /\ EmptyLimiter
    /\ IdleRequest
    /\ IdleClient

CallRL == \E k \in Keys : RateCall(k) /\ UNCHANGED <<envVars, now, reqVars>>

TickMsRL == TickMs /\ UNCHANGED <<envVars, rlVars, reqVars>>

TickWindowRL == TickWindow /\ UNCHANGED <<envVars, rlVars, reqVars>>

NextRL == CallRL \/ TickMsRL \/ TickWindowRL

SpecRL == InitRL /\ [][NextRL]_vars

\* The rate limiter of detect-disease called for one key, with a log of the
\* admitted calls of the key's current and previous window instance
InitWindow ==
    /\ fn = DETECT
    /\ apiKey = TRUE
    /\ EmptyLimiter
    /\ IdleRequest
    /\ IdleClient

CallLogged ==
    LET fresh == WindowOver(rateLimitMap, LoggedKey, now)
        log == admitLog[LoggedKey]
    IN /\ RateCall(LoggedKey)
       /\ admitLog' = [admitLog EXCEPT ![LoggedKey] =
                          IF ~checkRateLimit(fn, rateLimitMap, LoggedKey, now).ok THEN log
                          ELSE IF fresh
                          THEN [previous |-> log.current, current |-> <<now>>]
                          ELSE [log EXCEPT !.current = Append(@, now)]]
       /\ UNCHANGED <<fn, apiKey, clientVars, inflight, tm, now, reqVars>>

NextWindow == CallLogged \/ TickMsRL \/ TickWindowRL

SpecWindow == InitWindow /\ [][NextWindow]_vars

\* Several requests of one key handled by one isolate at once. The handler
\* of a request runs from its start to its first await, which includes the
\* call of checkRateLimit; from there on it is resumed at each of its awaits
\* (req.json(), callVisionAI, delay, response.json()), in any order with the
\* other requests.
StartHandler ==
    \E r \in Requests :
        LET out == checkRateLimit(fn, AsMap(LoggedKey, RecordRead(LoggedKey)), LoggedKey, now)
            fresh == WindowOver(rateLimitMap, LoggedKey, now)
            made == IF fresh THEN 0 ELSE winCalls[LoggedKey]
            admits == IF fresh THEN 0 ELSE winAdmits[LoggedKey]
        IN /\ inflight[r].pc = "idle"
           /\ made < RATE_LIMIT(fn) + MaxExtraCalls
           /\ rateLimitMap' = IF out.ok
                              THEN MapSet(rateLimitMap, LoggedKey, out.map[LoggedKey])
                              ELSE rateLimitMap
           /\ winCalls' = [winCalls EXCEPT ![LoggedKey] = made + 1]
           /\ winAdmits' = [winAdmits EXCEPT ![LoggedKey] = admits + (IF out.ok THEN 1 ELSE 0)]
           /\ lastCall' = [key |-> LoggedKey, at |-> now, fresh |-> fresh,
                           prevCount |-> RecordOf(rateLimitMap, LoggedKey).count,
                           prevCalls |-> winCalls[LoggedKey],
                           ok |-> out.ok]
           /\ inflight' = [inflight EXCEPT ![r] =
                               IF Rejects(out.ok) THEN NoSlot
                               ELSE [NoSlot EXCEPT !.pc = "body"]]
           /\ UNCHANGED <<fn, apiKey, clientVars, admitLog, tm, now, reqVars>>

\* A request is resumed at its await and runs to the next one, or to its return
ResumeHandler ==
    \E r \in Requests : \E next \in AfterAwait(inflight[r]) :
        /\ inflight' = [inflight EXCEPT ![r] = next]
        /\ UNCHANGED <<fn, apiKey, clientVars, admitLog, tm, now, rlVars, reqVars>>

NextConcurrent == StartHandler \/ ResumeHandler \/ TickWindowRL

SpecConcurrent == InitWindow /\ [][NextConcurrent]_vars

\* The request handlers of the two classification endpoints, one request at a time
Init ==
    /\ fn \in {DETECT, VISION}
    /\ apiKey \in BOOLEAN
    /\ EmptyLimiter
    /\ IdleRequest
    /\ IdleClient

ReceiveRequest == \E m \in Methods, h \in Headers : Receive(m, h)

ReadRequestBody == \E b \in Bodies : ReadBody(b)

CallAttempt == \E o \in Outcomes : Call(o)

ReadEnvelope == \E e \in Envelopes : ReadAI(e)

Next ==
    \/ ReceiveRequest
    \/ ReadRequestBody
    \/ Backoff
    \/ CallAttempt
    \/ ReadEnvelope
    \/ TickPastWindow

Spec == Init /\ [][Next]_vars

\* The handlers under the scheduling the code guarantees. The request body
\* arrives; the timer of delay() fires; callVisionAI settles, because its abort
\* timer runs from before fetch is issued until fetch has resolved or thrown.
\* The reading of the upstream's body (response.json()) happens after
\* clearTimeout: no timer runs then, and nothing makes it settle.
SpecLive ==
    /\ Init
    /\ [][Next]_vars
    /\ WF_vars(ReadRequestBody)
    /\ WF_vars(Backoff)
    /\ WF_vars(CallAttempt)

\* analyzeImageQuality, one call on every image of the input domain
InitQuality ==
    /\ fn = DETECT
    /\ apiKey = TRUE
    /\ EmptyLimiter
    /\ IdleRequest
    /\ IdleClient

serverVars == <<fn, apiKey, now, rlVars, admitLog, inflight, tm, reqVars>>

StartAnalysis == \E image \in QualityImages : AnalyzeImageQuality(image)

NextQuality ==
    \/ StartAnalysis /\ UNCHANGED <<serverVars, cz, sh>>
    \/ AnalysisLoaded /\ UNCHANGED <<serverVars, cz, sh>>
    \/ AnalysisFailed /\ UNCHANGED <<serverVars, cz, sh>>

SpecQuality == InitQuality /\ [][NextQuality]_vars

\* compressImage and preprocessForDetection, one call on every image and
\* options of the input domain
StartCompress ==
    \E image \in ResizeImages, opts \in CompressOptions :
        StartResize("compressImage", image, opts)

StartPreprocess ==
    \E image \in ResizeImages : StartResize("preprocessForDetection", image, NoOptions)

NextResize ==
    \/ StartCompress /\ UNCHANGED <<serverVars, qa, sh>>
    \/ StartPreprocess /\ UNCHANGED <<serverVars, qa, sh>>
    \/ ResizeFailed /\ UNCHANGED <<serverVars, qa, sh>>
    \/ (\E n \in EncodedLengths : CompressLoaded(n)) /\ UNCHANGED <<serverVars, qa, sh>>
    \/ (\E n \in EncodedLengths : Reencode(n)) /\ UNCHANGED <<serverVars, qa, sh>>
    \/ CompressDone /\ UNCHANGED <<serverVars, qa, sh>>
    \/ (\E n \in EncodedLengths : PreprocessLoaded(n)) /\ UNCHANGED <<serverVars, qa, sh>>

SpecResize == InitQuality /\ [][NextResize]_vars

\* applySharpenFilter, one call on every ImageData of the input domain
GiveImageData ==
    (\E imageData \in SharpenImages : ReadCanvas(imageData)) /\ UNCHANGED <<serverVars, qa, cz>>

ApplySharpen == Sharpen /\ UNCHANGED <<serverVars, qa, cz>>

NextSharpen == GiveImageData \/ ApplySharpen

SpecSharpen == InitQuality /\ [][NextSharpen]_vars

\* The parser alone, on every text of the input domain
\* The retry loop of one request, with the time and its timers
SettleFetch ==
    /\ \E latency \in Latencies, outcome \in Outcomes \ {"http500_unreadable"} :
          FetchSettles(latency, outcome)
    /\ UNCHANGED <<fn, apiKey, now, rlVars, admitLog, inflight, reqVars, clientVars>>

NextTimer ==
    \/ EnterLoop /\ UNCHANGED <<fn, apiKey, now, rlVars, admitLog, inflight, reqVars, clientVars>>
    \/ SettleFetch
    \/ TimerFires /\ UNCHANGED <<fn, apiKey, now, rlVars, admitLog, inflight, reqVars, clientVars>>
    \/ BackoffEnds /\ UNCHANGED <<fn, apiKey, now, rlVars, admitLog, inflight, reqVars, clientVars>>

InitTimer ==
    /\ fn \in {DETECT, VISION}
    /\ apiKey = TRUE
    /\ EmptyLimiter
    /\ IdleRequest
    /\ IdleClient

SpecTimer == InitTimer /\ [][NextTimer]_vars

InitVal ==
    /\ fn \in {DETECT, VISION}
    /\ apiKey = TRUE
    /\ EmptyLimiter
    /\ IdleRequest
    /\ IdleClient

GiveText ==
    /\ pc = "idle"
    /\ \E x \in ValidatorTexts(fn) : envelope' = [t |-> "text", text |-> x]
    /\ pc' = "parse"
    /\ UNCHANGED <<envVars, now, rlVars, req, attempt, response, lastError, calls, delays,
                   parsed, res>>

RunParser ==
    /\ pc = "parse"
    /\ parsed' = Parse(fn, envelope.text, ISO(now))
    /\ pc' = "parsed"
    /\ UNCHANGED <<envVars, now, rlVars, req, attempt, response, lastError, calls, delays,
                   envelope, res>>

NextVal == GiveText \/ RunParser

SpecVal == InitVal /\ [][NextVal]_vars

----------------------------------------------------------------------------
(* Properties                                                              *)

\* The integers a decimal string of the result stands for
IsDecimalIn(str, lo, hi) == \E n \in lo..hi : str = ToString(n)

\* C1: for every caller key and every window instance, checkRateLimit admits
\* exactly the first N = RATE_LIMIT calls and rejects every further call of
\* the key in that window; every stored record has 1 <= count <= N.
C1_WindowAdmitsFirstN ==
    \A k \in Keys :
        /\ k \in DOMAIN rateLimitMap => rateLimitMap[k].count \in 1..RATE_LIMIT(fn)
        /\ winAdmits[k] = Min(winCalls[k], RATE_LIMIT(fn))
        /\ lastCall.key = k => (lastCall.ok <=> winCalls[k] <= RATE_LIMIT(fn))

\* A key of generate-lesson (N = 20) whose window instance has seen N + 2
\* calls: N admitted, the last one rejected.
C1_Witness ==
    \E k \in Keys :
        /\ fn = LESSON
        /\ winCalls[k] = RATE_LIMIT(fn) + 2
        /\ winAdmits[k] = RATE_LIMIT(fn)
        /\ lastCall.key = k /\ ~lastCall.ok
        /\ rateLimitMap[k].count = RATE_LIMIT(fn)

\* C2: a checkRateLimit call for a key without a record, or made after the
\* record's reset time has passed, is admitted and leaves the fresh record
\* (count = 1, resetTime = now + 60000), whatever the previous count was.
C2_FreshCallResetsRecord ==
    (lastCall.key # "" /\ lastCall.fresh) =>
        /\ lastCall.ok
        /\ rateLimitMap[lastCall.key] =
               [count |-> 1, resetTime |-> lastCall.at + RATE_WINDOW_MS]

\* A key that was being rejected (count = N, a call beyond N made) is called
\* again after its reset time: admitted on a fresh record.
C2_Witness ==
    /\ lastCall.key # "" /\ lastCall.fresh /\ lastCall.ok
    /\ lastCall.prevCount = RATE_LIMIT(fn)
    /\ lastCall.prevCalls > RATE_LIMIT(fn)
    /\ lastCall.at > RATE_WINDOW_MS
    /\ rateLimitMap[lastCall.key].count = 1

AllCalls(kinds) == \A i \in 1..Len(calls) : calls[i] \in kinds

\* C3: when every call attempt of a detect-disease request times out, the
\* handler makes exactly 1 + MAX_RETRIES = 3 attempts and then returns, with
\* status 200, a Fallback Result whose confidence is 0.
C3_AllTimeoutsGiveFallback ==
    (fn = DETECT /\ calls # << >> /\ AllCalls({"timeout"})) =>
        /\ Len(calls) <= 1 + MAX_RETRIES
        /\ pc = "done" <=> Len(calls) = 1 + MAX_RETRIES
        /\ pc = "done" =>
              /\ res.status = 200
              /\ res.cause = "retries_exhausted"
              /\ res.body.confidence = "0"

C3_Witness ==
    /\ fn = DETECT /\ pc = "done"
    /\ calls = <<"timeout", "timeout", "timeout">>
    /\ delays = <<RETRY_DELAY_MS, 2 * RETRY_DELAY_MS>>
    /\ res.status = 200 /\ res.body.confidence = "0"

\* C4: for each kind of retryable failure (transport error, timeout, upstream
\* 429) and any mix of them, when all 3 attempts of a request fail the handler
\* returns a Fallback Result, not an error response.
C4_RetryableFailuresGiveFallback ==
    (pc = "done" /\ Len(calls) = 1 + MAX_RETRIES
       /\ AllCalls({"neterr", "timeout", "http429"})) =>
        /\ res.status = 200
        /\ res.cause = "retries_exhausted"

\* C5: when any call attempt receives the upstream status 402, the handler
\* returns at once the service-unavailable error (status 503): no further
\* attempt, no backoff wait, no Fallback Result.
C5_QuotaExhaustedShortCircuits ==
    \A i \in 1..Len(calls) :
        calls[i] = "http402" =>
            /\ i = Len(calls)
            /\ Len(delays) = i - 1
            /\ pc = "done"
            /\ res.status = 503
            /\ res.body = IF fn = DETECT THEN [errorCode |-> "SERVICE_UNAVAILABLE"]
                          ELSE [error |-> "AI service unavailable", detected |-> FALSE]

\* The 402 arrives on the second retry
C5_Witness ==
    /\ pc = "done" /\ Len(calls) = 1 + MAX_RETRIES
    /\ calls[Len(calls)] = "http402"
    /\ res.status = 503

\* The image of the request is missing, oversized or undersized
ImageRejected(f, b) ==
    \/ b.image.t # "string"
    \/ b.image.len = 0
    \/ b.image.len > MAX_IMAGE_SIZE
    \/ f = DETECT /\ b.image.len < MIN_IMAGE_LENGTH
    \/ f = VISION /\ CleanLength(b.image) < MIN_CLEAN_LENGTH

\* The rate limiter rejected the current request
RateLimited == req.method # "OPTIONS" /\ lastCall.key = req.clientIP /\ ~lastCall.ok

\* The body of the response is the parser's result or a Fallback Result
ResultOrFallback ==
    \/ res.cause = "validated" /\ ~parsed.threw /\ res.body = Stringify(parsed)
    \/ /\ res.cause \in {"retries_exhausted", "empty_content", "parse_error"}
       /\ IF fn = DETECT THEN res.body.confidence = "0" /\ res.body.category = "unknown"
          ELSE res.body.detected = FALSE

LastCall == IF calls = << >> THEN "none" ELSE calls[Len(calls)]

C7_ExpertFlagBelowMedium ==
    (fn = DETECT /\ pc = "parsed" /\ ~parsed.threw) =>
        (IsDecimalIn(parsed.value.confidence, 0, MEDIUM - 1) =>
            parsed.value.expert_consultation = TRUE)

SupportedUrgencies == {"immediate", "within_3_days", "within_week", "routine"}

MlComplete(field) == field.t = "object" /\ Languages \subseteq field.langs

\* The invariants of a DetectionResult
DetectionResultInvariants(r) ==
    /\ IsDecimalIn(r.confidence, 0, 99)
    /\ r.severity \in {"Low", "Medium", "High"}
    /\ r.action_urgency \in SupportedUrgencies
    /\ IsDecimalIn(r.confidence, 0, MEDIUM - 1) => r.expert_consultation = TRUE
    /\ MlComplete(r.description) /\ MlComplete(r.solutions) /\ MlComplete(r.tts)

\* C8: given classifier text that cannot be parsed, the result returned to the
\* caller is the Fallback Result, and it satisfies every DetectionResult
\* invariant: confidence in [0,99], severity Low/Medium/High, action urgency in
\* its closed set, expert flag true, every multilingual field complete.
C8_ParseFailureFallbackValid ==
    (fn = DETECT /\ pc = "done" /\ envelope.t = "text" /\ envelope.text.kind = "garbage") =>
        /\ res.status = 200
        /\ res.cause = "parse_error"
        /\ DetectionResultInvariants(res.body)

\* The request ended in a Fallback Result of detect-disease
FallbackCase ==
    /\ fn = DETECT /\ pc = "done"
    /\ \/ Len(calls) = 1 + MAX_RETRIES /\ LastCall \notin {"ok", "http429", "http402"}
       \/ LastCall = "ok" /\ envelope.t = "nocontent"
       \/ LastCall = "ok" /\ envelope.t = "text" /\ parsed.threw

\* C9: every Fallback Result of detect-disease, whatever its cause (all
\* attempts failed, empty classifier content, parse failure), has confidence
\* 0, category "unknown" and expert consultation true.
C9_FallbackShape ==
    FallbackCase =>
        /\ res.status = 200
        /\ res.body.confidence = "0"
        /\ res.body.category = "unknown"
        /\ res.body.expert_consultation = TRUE

\* A Fallback Result for empty content after two failed attempts
C9_Witness ==
    /\ FallbackCase
    /\ Len(calls) = 1 + MAX_RETRIES /\ LastCall = "ok" /\ envelope.t = "nocontent"
    /\ res.body.confidence = "0"

\* The record's confidence as the claim reads it
ConfidenceMissing(raw) == raw.t \in {"undefined", "null"}
ConfidenceNonNumeric(raw) == raw.t = "string-nodigits"
ConfidenceNegative(raw) == raw.t \in {"number", "string"} /\ raw.neg /\ (raw.int > 0 \/ raw.frac)
ConfidenceAbove99(raw) == raw.t \in {"number", "string"} /\ ~raw.neg /\ raw.int > 99

\* C10: for every parsed classifier record the output confidence is 50 when
\* the record's confidence is missing, non-numeric or negative, 99 when it is
\* above 99 and the integer value otherwise; it is always within [0,99].
C10_ConfidenceRule ==
    (fn = DETECT /\ pc = "parsed" /\ envelope.text.kind = "object") =>
        LET raw == envelope.text.rec.confidence
            out == parsed.value.confidence
        IN /\ ~parsed.threw
           /\ IsDecimalIn(out, 0, 99)
           /\ out = IF ConfidenceMissing(raw) \/ ConfidenceNonNumeric(raw)
                       \/ ConfidenceNegative(raw)
                    THEN "50"
                    ELSE IF ConfidenceAbove99(raw) THEN "99" ELSE ToString(raw.int)

\* C11: after validation every multilingual field of the result (description,
\* solutions, tts) has an entry for every supported language: a field that is
\* missing, is not an object or is a partial object is replaced by the default
\* set.
C11_MultilingualComplete ==
    (fn = DETECT /\ pc = "parsed" /\ ~parsed.threw) =>
        /\ MlComplete(parsed.value.description)
        /\ MlComplete(parsed.value.solutions)
        /\ MlComplete(parsed.value.tts)

\* A step that consults the rate limiter
RateCheckStep == rlVars' # rlVars

\* C12: in both classification endpoints the rate limiter is consulted exactly
\* once per request, when the request arrives and before any classifier call:
\* every non-OPTIONS arrival makes one checkRateLimit call for its key, no
\* other step of the handler touches the limiter, and a classifier call is
\* made only for a request the limiter admitted.
C12_RateCheckOncePerRequest ==
    [][/\ RateCheckStep =>
              /\ pc \in {"idle", "done"}
              /\ req'.method # "OPTIONS"
              /\ calls' = << >>
              /\ lastCall'.key = req'.clientIP
              /\ winCalls' = [winCalls EXCEPT ![req'.clientIP] =
                                 (IF lastCall'.fresh THEN 0 ELSE @) + 1]
       /\ (pc \in {"idle", "done"} /\ now' = now /\ req'.method # "OPTIONS") => RateCheckStep
       /\ (calls' # calls /\ calls' # << >>) =>
              /\ ~RateCheckStep
              /\ lastCall.ok
              /\ lastCall.key = req.clientIP
              /\ ISO(lastCall.at) = req.timestamp
       /\ (delays' # delays /\ delays' # << >>) => ~RateCheckStep
      ]_vars

\* A request that used its three attempts has consumed one admission: it is
\* the only checkRateLimit call of its key's window.
C12_Witness ==
    /\ pc = "done" /\ Len(calls) = 1 + MAX_RETRIES /\ Len(delays) = MAX_RETRIES
    /\ lastCall.key = req.clientIP /\ lastCall.ok
    /\ winCalls[req.clientIP] = 1 /\ winAdmits[req.clientIP] = 1
    /\ rateLimitMap[req.clientIP].count = 1

\* The handler holds a request that the rate limiter admitted and that has no
\* response yet
InFlight == pc \in {"body", "call", "backoff", "readAI"}

\* C13: every admitted request to a classification endpoint eventually returns
\* a response, whatever the upstream does; at most 3 call attempts are made.
C13_AdmittedRequestReturns ==
    /\ [](Len(calls) <= 1 + MAX_RETRIES)
    /\ InFlight ~> pc = "done"

\* C14: both classification endpoints reject an encoded image longer than
\* 6*1024*1024 characters, or shorter than the minimum size bound of about
\* 5 KB, with an input error (status 400) and without making any classifier
\* call (stated for a configured API key).
C14_SizeBoundsRejected ==
    (apiKey /\ pc \in {"call", "backoff", "readAI", "done"}
       /\ req.body.json /\ req.body.image.t = "string"
       /\ (req.body.image.len > MAX_IMAGE_SIZE \/ req.body.image.len < MIN_IMAGE_LENGTH)) =>
        /\ pc = "done"
        /\ res.status = 400
        /\ calls = << >>

\* C15: every report produced by analyzeImageQuality, the default reports
\* produced on failure included, has its score within [0,100] and isValid
\* equal to (score >= 40).
C15_ReportScoreAndValidity ==
    qa.promise = "resolved" =>
        /\ qa.report.score \in 0..100
        /\ qa.report.isValid = (qa.report.score >= 40)

\* The default report of an image that does not decode
C15_Witness ==
    /\ qa.promise = "resolved" /\ ~qa.image.loads
    /\ qa.report.score = 0 /\ ~qa.report.isValid
    /\ qa.report.issues = <<"Failed to load image">>

\* C16: analyzeImageQuality is total: whatever the image (undecodable, no
\* drawing context, a side of length 0, a pixel read that fails), once the
\* load or error event has been handled the promise is resolved with a
\* report; when decoding failed the report has isValid = false, score = 0 and
\* exactly one issue.
C16_AnalysisIsTotal ==
    qa.pc = "handled" =>
        /\ qa.promise = "resolved"
        /\ ~qa.image.loads =>
              /\ ~qa.report.isValid
              /\ qa.report.score = 0
              /\ Len(qa.report.issues) = 1

\* <<x>> when the rule applies
When(applies, x) == IF applies THEN <<x>> ELSE << >>

\* C17: for every analysed image the score is 100 - 25*[brightness < 30]
\* - 20*[brightness > 220] - 20*[contrast < 20] - 30*[sharpness < 15]
\* - 15*[min(width,height) < 400], and each rule that applies appends one
\* issue and one recommendation, in the order brightness, contrast, sharpness,
\* resolution.
C17_ScoreFormula ==
    (qa.promise = "resolved" /\ qa.metrics # NoMetrics) =>
        LET dark == BrightnessBelow(qa.metrics.brightness, 30)
            bright == BrightnessAbove(qa.metrics.brightness, 220)
            flat == ContrastBelow(qa.metrics.contrast, 20)
            blurry == SharpnessBelow(qa.metrics.sharpness, 15)
            small == Min(qa.image.width, qa.image.height) < 400
            P(applies, penalty) == IF applies THEN penalty ELSE 0
        IN /\ qa.report.score = 100 - P(dark, 25) - P(bright, 20) - P(flat, 20)
                                    - P(blurry, 30) - P(small, 15)
           /\ qa.report.issues =
                  When(dark, "Image is too dark") \o When(bright, "Image is overexposed")
                  \o When(flat, "Low contrast - details may be hard to detect")
                  \o When(blurry, "Image appears blurry") \o When(small, "Low resolution")
           /\ qa.report.recommendations =
                  When(dark, "Move to a well-lit area or use flash")
                  \o When(bright, "Reduce lighting or avoid direct sunlight")
                  \o When(flat, "Ensure affected area is clearly visible")
                  \o When(blurry, "Hold camera steady and tap to focus")
                  \o When(small, "Move closer to the plant or use higher resolution")
           /\ Len(qa.report.issues) = Len(qa.report.recommendations)

\* A large overexposed image of one level: the brightness, contrast and
\* sharpness rules apply together, the resolution rule does not.
C17_Witness ==
    /\ qa.promise = "resolved" /\ qa.metrics # NoMetrics
    /\ qa.image.width = 1280 /\ qa.image.height = 720
    /\ qa.report.issues = <<"Image is overexposed",
                            "Low contrast - details may be hard to detect",
                            "Image appears blurry">>
    /\ qa.report.score = 30

\* C18: for a solid-black image whose shorter side is below 400 the report
\* has the too-dark and the low-resolution issue, score <= 60 and
\* isValid = false.
C18_SolidBlackSmall ==
    (qa.pc = "handled" /\ qa.image.loads /\ qa.image.context /\ qa.image.readable
       /\ (\A i \in 1..Len(qa.image.levels) : qa.image.levels[i] = 0)
       /\ Min(qa.image.width, qa.image.height) \in 1..399) =>
        /\ qa.promise = "resolved"
        /\ \E i \in 1..Len(qa.report.issues) : qa.report.issues[i] = "Image is too dark"
        /\ \E i \in 1..Len(qa.report.issues) : qa.report.issues[i] = "Low resolution"
        /\ qa.report.score <= 60
        /\ ~qa.report.isValid

\* C19: the quality-reduction loop of compressImage re-encodes at most
\* MAX_ITERATIONS times whatever the encoded sizes and the options are (every
\* pass adds one encode to the first one), and when the loop has ended and the
\* promise is resolved, the result is within the byte budget, or the quality
\* is no longer above 0.4, or MAX_ITERATIONS passes have been made.
C19_LoopBounded ==
    cz.op = "compressImage" =>
        /\ cz.iterations <= MAX_ITERATIONS
        /\ cz.encodes # << >> => Len(cz.encodes) = cz.iterations + 1
        /\ cz.promise = "resolved" =>
               \/ ~OverBudget(ResultLength, cz.opts.maxSizeKB)
               \/ ~AboveFloor(cz.quality)
               \/ cz.iterations = MAX_ITERATIONS

\* C19: the loop has ended on the iteration count alone, with the result
\* still over the budget and the quality still above 0.4
C19_Witness ==
    /\ cz.op = "compressImage" /\ cz.promise = "resolved"
    /\ cz.iterations = MAX_ITERATIONS
    /\ OverBudget(ResultLength, cz.opts.maxSizeKB)
    /\ AboveFloor(cz.quality)

\* C20: every resize operation that resolves for a source image whose shorter
\* side is below MIN_DIMENSION gives an output whose shorter side is at least
\* MIN_DIMENSION.
C20_MinimumDimension ==
    (cz.promise = "resolved" /\ Min(cz.image.width, cz.image.height) < MIN_DIMENSION)
        => Min(cz.width, cz.height) >= MIN_DIMENSION

\* The pixel of an ImageData at column x, row y
PixelAt(imageData, x, y) == imageData.data[y * imageData.width + x + 1]

\* C21: applySharpenFilter returns an image of the same width and height, in
\* which every pixel of the first and last row and column has the colour of
\* the source pixel, and every pixel, border or not, has alpha 255.
C21_SharpenBorderAndAlpha ==
    sh.pc = "sharpened" =>
        /\ sh.output.width = sh.input.width
        /\ sh.output.height = sh.input.height
        /\ Len(sh.output.data) = sh.input.width * sh.input.height
        /\ \A x \in 0..(sh.input.width - 1), y \in 0..(sh.input.height - 1) :
              /\ ~IsInterior(sh.input, x, y) =>
                     \A c \in 1..3 : PixelAt(sh.output, x, y)[c] = PixelAt(sh.input, x, y)[c]
              /\ PixelAt(sh.output, x, y)[4] = 255

\* C22: the timestamp of every result the validator of detect-disease returns
\* is the one the handler took when the request arrived, also in the body of
\* the response made of it; the timestamp of the classifier's record is not
\* in the output.
C22_ServerTimestamp ==
    (fn = DETECT /\ pc = "done" /\ envelope.t = "text" /\ ~parsed.threw) =>
        /\ parsed.value.timestamp = req.timestamp
        /\ parsed.shape = "object" => res.body.timestamp = req.timestamp

\* C22: a record that carries a timestamp of its own has been validated, at a
\* time later than the arrival of the request
C22_Witness ==
    /\ fn = DETECT /\ pc = "done" /\ envelope.t = "text" /\ ~parsed.threw
    /\ envelope.text.rec.timestamp \notin {"", req.timestamp}
    /\ ISO(now) # req.timestamp
    /\ res.body.timestamp = req.timestamp

\* A step in which checkRateLimit is called
RateLimiterCalled == lastCall' # lastCall \/ winCalls' # winCalls

\* C23: a rejected checkRateLimit call leaves the whole map as it was (no
\* count incremented, no resetTime extended), and a call for key k, admitted
\* or rejected, leaves the record of every other key as it was, as does every
\* step that is no call.
C23_RejectedCallFrame ==
    [][/\ (RateLimiterCalled /\ ~lastCall'.ok) => rateLimitMap' = rateLimitMap
       /\ \A k \in Keys :
              (~RateLimiterCalled \/ lastCall'.key # k) =>
                  /\ NoRecord(rateLimitMap', k) <=> NoRecord(rateLimitMap, k)
                  /\ RecordOf(rateLimitMap', k) = RecordOf(rateLimitMap, k)
      ]_vars

\* C23: a call of a key was rejected some time after its window began, while
\* the other key has a record of its own with a different reset time.
C23_Witness ==
    \E k \in Keys, other \in Keys :
        /\ k # other
        /\ lastCall.key = k /\ ~lastCall.ok
        /\ rateLimitMap[k].count = RATE_LIMIT(fn)
        /\ rateLimitMap[k].resetTime < lastCall.at + RATE_WINDOW_MS
        /\ ~NoRecord(rateLimitMap, other)
        /\ rateLimitMap[other].resetTime # rateLimitMap[k].resetTime
        /\ rateLimitMap[other].count < RATE_LIMIT(fn)

\* The number of logged admissions made at a time within [from, from + span]
AdmittedWithin(times, from, span) ==
    Cardinality({i \in 1..Len(times) : from <= times[i] /\ times[i] <= from + span})

\* C24 as stated: N requests admitted at the end of one window and N at the
\* start of the next lie within a time span shorter than the window duration.
C24_TwoNWithinWindow ==
    LET log == admitLog[LoggedKey]
    IN (Len(log.previous) = RATE_LIMIT(fn) /\ Len(log.current) = RATE_LIMIT(fn))
           => log.current[Len(log.current)] - log.previous[1] < RATE_WINDOW_MS

\* C24 (amended): the admitted requests of one key, in the order of their
\* times, are such that any 2N of them span more than W: no time interval of
\* length W holds more than 2N - 1 of them, hence never more than 2N. A window
\* instance opens with its first admitted request and the next one opens more
\* than W later, so the request that opened a window and the N requests of
\* the next window are never within W of each other.
C24_BoundaryBurst ==
    LET times == admitLog[LoggedKey].previous \o admitLog[LoggedKey].current
        burst == 2 * RATE_LIMIT(fn)
    IN /\ \A i \in 1..(Len(times) - 1) : times[i] <= times[i + 1]
       /\ \A i \in 1..(Len(times) - (burst - 1)) :
              times[i + burst - 1] - times[i] > RATE_WINDOW_MS

\* C24: 2N - 1 requests of the key admitted within 1 ms: N - 1 at the end of
\* a window and N at the start of the next.
C24_Witness ==
    LET log == admitLog[LoggedKey]
    IN /\ Len(log.previous) = RATE_LIMIT(fn)
       /\ Len(log.current) = RATE_LIMIT(fn)
       /\ AdmittedWithin(log.previous \o log.current, log.previous[2], 1)
              = 2 * RATE_LIMIT(fn) - 1

\* C25: with several requests of one key in flight at once, interleaved at
\* their awaits, every checkRateLimit call reads, tests and writes the record
\* in one step: in each window instance of the key the first N calls are
\* admitted and no more, and the stored count is the number of calls admitted
\* in it (no increment is lost).
C25_ChecksAreAtomic ==
    /\ winAdmits[LoggedKey] <= RATE_LIMIT(fn)
    /\ winAdmits[LoggedKey] = Min(winCalls[LoggedKey], RATE_LIMIT(fn))
    /\ winCalls[LoggedKey] > 0 =>
           RecordOf(rateLimitMap, LoggedKey).count = winAdmits[LoggedKey]

\* C25: two requests of the key wait at different awaits, the second of them
\* admitted as the N-th call of the window while the first was in flight
C25_Witness ==
    \E r, q \in Requests :
        /\ inflight[r].pc = "backoff" /\ inflight[q].pc = "body"
        /\ winAdmits[LoggedKey] = RATE_LIMIT(fn)
        /\ winCalls[LoggedKey] = RATE_LIMIT(fn)
        /\ lastCall.key = LoggedKey /\ lastCall.ok
        /\ rateLimitMap[LoggedKey].count = RATE_LIMIT(fn)

\* C26: once an attempt of a request has returned an OK status, whatever the
\* upstream's body and the classifier's text are, the request is answered with
\* status 200 by a validated result or a Fallback Result; no error response is
\* returned.
C26_RecoveredAfterOkStatus ==
    (pc = "done" /\ calls # << >> /\ calls[Len(calls)] = "ok") =>
        /\ res.status = 200
        /\ res.cause \in {"validated", "parse_error", "empty_content"}

\* The failures of an attempt after which the loop goes on
Retryable == {"neterr", "timeout", "http429", "http500", "http500_unreadable"}

\* C27: nothing is waited before the first attempt; before retry k = 1, 2 the
\* handler waits RETRY_DELAY_MS * k (1500 ms, then 3000 ms), whatever the
\* retryable failure of the attempt before was; there is no other wait between
\* attempts.
C27_BackoffWaits ==
    /\ Len(delays) <= MAX_RETRIES
    /\ Len(delays) = IF pc = "call" THEN Len(calls)
                     ELSE IF calls = << >> THEN 0 ELSE Len(calls) - 1
    /\ \A k \in 1..Len(delays) :
          /\ delays[k] = RETRY_DELAY_MS * k
          /\ calls[k] \in Retryable
    /\ \A k \in 2..Len(calls) : calls[k - 1] \in Retryable /\ k - 1 <= Len(delays)

\* Both retries were waited for, after an upstream 429 and after a timeout
C27_Witness ==
    /\ Len(calls) = 1 + MAX_RETRIES
    /\ calls[1] = "http429" /\ calls[2] = "timeout"
    /\ delays = <<1500, 3000>>

\* C28: every call attempt sets its own abort timer at the moment the call is
\* issued, which is when the backoff wait has ended; the timer is cleared when
\* the attempt settles. So an attempt is aborted only by its own timer,
\* REQUEST_TIMEOUT_MS after it was issued, and no timer of a settled attempt
\* is left running.
C28_OwnTimerPerAttempt ==
    /\ Len(tm.timers) = Len(tm.log) + (IF tm.pc = "fetch" THEN 1 ELSE 0)
    /\ Armed(tm.timers) = IF tm.pc = "fetch" THEN {Len(tm.timers)} ELSE {}
    /\ tm.pc = "fetch" => tm.timers[Len(tm.timers)].setAt = tm.issuedAt
    /\ \A k \in 1..Len(tm.log) :
          /\ tm.timers[k].setAt = tm.log[k].issuedAt
          /\ tm.log[k].issuedAt =
                IF k = 1 THEN 0 ELSE tm.log[k - 1].settledAt + RETRY_DELAY_MS * (k - 1)
          /\ IF tm.log[k].outcome = "timeout"
             THEN /\ tm.log[k].abortedBy = k
                  /\ tm.log[k].settledAt = tm.log[k].issuedAt + REQUEST_TIMEOUT_MS
                  /\ tm.timers[k].state = "fired"
             ELSE /\ tm.log[k].abortedBy = 0
                  /\ tm.log[k].settledAt < tm.log[k].issuedAt + REQUEST_TIMEOUT_MS
                  /\ tm.timers[k].state = "cleared"

\* The second retry answers just before its own timer fires, more than
\* REQUEST_TIMEOUT_MS after the first timer was set, and after a timeout
C28_Witness ==
    /\ tm.pc = "done" /\ Len(tm.log) = 1 + MAX_RETRIES
    /\ tm.log[1].outcome = "neterr"
    /\ tm.log[2].outcome = "timeout"
    /\ tm.log[3].outcome = "ok"
    /\ tm.log[3].settledAt = tm.log[3].issuedAt + REQUEST_TIMEOUT_MS - 1

\* C29: for every classifier record that parses, the result of the
\* vision-detect parser carries a confidence that is a number within 0..99,
\* also when the upstream confidence is no number, zero or negative.
C29_VisionConfidenceInRange ==
    (fn = VISION /\ pc = "parsed" /\ ~parsed.threw /\ parsed.shape = "object") =>
        IF parsed.value.set
        THEN /\ ~parsed.value.confidence.nan
             /\ parsed.value.confidence.val \in 0..99
        ELSE parsed.value.raw = "number"

\* C30: for every pixel buffer that was read, also that of a sampled square of
\* side 1 or 2, which has no interior pixel, brightness, contrast and
\* sharpness are finite and not negative (each is a quotient with a positive
\* divisor and a dividend of at least 0), and a second evaluation on the same
\* buffer gives the same values.
C30_MetricsFiniteNonNegative ==
    (qa.promise = "resolved" /\ qa.metrics # NoMetrics) =>
        LET size == Min3(qa.image.width, qa.image.height, SAMPLE_SIZE)
            pixels == getImageData(qa.image, size)
            brightness == calculateBrightness(pixels)
        IN /\ qa.metrics.brightness.count > 0 /\ qa.metrics.brightness.sum >= 0
           /\ qa.metrics.contrast.count > 0 /\ qa.metrics.contrast.by > 0
           /\ qa.metrics.contrast.scaled >= 0
           /\ qa.metrics.sharpness.count > 0 /\ qa.metrics.sharpness.sum >= 0
           /\ qa.metrics.brightness = brightness
           /\ qa.metrics.contrast = calculateContrast(pixels, brightness)
           /\ qa.metrics.sharpness = calculateSharpness(pixels, size)

\* C31: the Laplacian that calculateSharpness computes at an interior pixel is
\* 8 times the luma of the centre minus the luma of its four edge-adjacent
\* neighbours, the corners having weight 0; border pixels contribute nothing.
\* Checked on the 3 x 3 squares, whose one interior pixel is pixel 5.
C31_LaplacianFourNeighbours ==
    (qa.promise = "resolved" /\ qa.metrics # NoMetrics /\ Len(qa.image.levels) = 9) =>
        LET g == qa.image.levels
            laplacian == 8 * g[5] - g[2] - g[4] - g[6] - g[8]
        IN /\ qa.metrics.sharpness.count = 1
           /\ qa.metrics.sharpness.sum = laplacian * laplacian

\* C32: every encode of a run of compressImage that starts from a quality in
\* (0.4, 1], the default 0.85 among them, uses a quality of at least 0.4.
C32_QualityFloorKept ==
    (cz.op = "compressImage" /\ ~cz.opts.quality.nan
       /\ cz.opts.quality.val > QUALITY_FLOOR /\ cz.opts.quality.val <= 100) =>
        \A i \in 1..Len(cz.encodes) :
            /\ ~cz.encodes[i].quality.nan
            /\ cz.encodes[i].quality.val >= QUALITY_FLOOR

\* The source image exceeds the target box of the options
ExceedsBox(image, opts) == image.width > opts.maxWidth \/ image.height > opts.maxHeight

\* The 320 floor rule applies to the size the image has after the fit
FloorRuleApplies(image, opts) ==
    LET fit == ShrinkToFit(image.width, image.height, opts.maxWidth, opts.maxHeight)
    IN fit.width < MIN_DIMENSION \/ fit.height < MIN_DIMENSION

\* C33: compressImage scales an image down, by the one factor
\* min(maxWidth / width, maxHeight / height) for both sides, only when the
\* image exceeds the target box; an image that fits in the box and has both
\* sides of at least 320 keeps its dimensions; and whenever the 320 floor rule
\* does not apply the canvas fits within maxWidth x maxHeight.
C33_ScaleDownOnlyOverBox ==
    (cz.op = "compressImage" /\ cz.pc \in {"loop", "handled"} /\ cz.image.loads) =>
        LET w == cz.image.width
            h == cz.image.height
            maxW == cz.opts.maxWidth
            maxH == cz.opts.maxHeight
            byWidth == maxW * h <= maxH * w
        IN /\ (~ExceedsBox(cz.image, cz.opts) /\ w >= MIN_DIMENSION /\ h >= MIN_DIMENSION)
                 => (cz.width = w /\ cz.height = h)
           /\ ~FloorRuleApplies(cz.image, cz.opts) =>
                 /\ cz.width <= maxW /\ cz.height <= maxH
                 /\ ExceedsBox(cz.image, cz.opts) =>
                       /\ cz.width <= w /\ cz.height <= h
                       /\ IF byWidth
                          THEN cz.width = maxW /\ cz.height = RoundDiv(h * maxW, w)
                          ELSE cz.height = maxH /\ cz.width = RoundDiv(w * maxH, h)
                 /\ ~ExceedsBox(cz.image, cz.opts) => (cz.width = w /\ cz.height = h)

\* A 2000 x 1000 image was scaled into the default box by the factor 0.64
C33_Witness ==
    /\ cz.op = "compressImage" /\ cz.promise = "resolved"
    /\ cz.image.width = 2000 /\ cz.image.height = 1000
    /\ cz.opts = DEFAULT_OPTIONS
    /\ cz.width = 1280 /\ cz.height = 640

\* C34: when the classifier's text holds a well-formed record followed or
\* preceded by prose that has braces of its own, the parser takes the record,
\* parses it and returns the normalized record: it does not throw, which is
\* what makes the handler answer with the Fallback Result.
C34_RecordAmongBracedProse ==
    (pc = "parsed" /\ envelope.text.kind = "object" /\ envelope.text.wrap \in BraceWraps) =>
        /\ ~parsed.threw
        /\ parsed.shape = "object"

\* The fields every DetectionResult carries
RequiredFields ==
    {"crop", "issue", "category", "severity", "confidence", "description", "solutions",
     "tts", "timestamp"}

\* C35: for every classifier text that detect-disease gives to its parser,
\* also one whose parsed value is no object (an array, a number, a string,
\* null), the body returned has all required fields of a DetectionResult: a
\* value that cannot carry them gives the Fallback Result.
C35_BodyHasRequiredFields ==
    (fn = DETECT /\ pc = "done" /\ envelope.t = "text") =>
        /\ res.status = 200
        /\ RequiredFields \subseteq DOMAIN res.body

\* C36: as soon as a call attempt returns an OK status the retry loop stops:
\* it is the last attempt and no backoff wait follows it; the response held
\* after the loop is OK exactly when the last attempt made was the successful
\* one, and the answer to the caller is then made from that attempt's
\* response (the upstream envelope read from it), not from an earlier failure.
C36_OkStopsTheLoop ==
    /\ \A i \in 1..Len(calls) :
          calls[i] = "ok" =>
              /\ i = Len(calls)
              /\ Len(delays) = i - 1
              /\ pc \in {"readAI", "done"}
              /\ response = HttpResponse(200)
    /\ (calls # << >> /\ pc \in {"readAI", "done"}) =>
          (response.ok <=> calls[Len(calls)] = "ok")
    /\ (pc = "done" /\ calls # << >>) =>
          (calls[Len(calls)] = "ok" <=>
              res.cause \in {"validated", "parse_error", "empty_content", "internal_error"})

\* The second retry succeeded after a timeout and an upstream error, and its
\* record was returned
C36_Witness ==
    /\ pc = "done"
    /\ calls = <<"timeout", "http500", "ok">>
    /\ delays = <<RETRY_DELAY_MS, 2 * RETRY_DELAY_MS>>
    /\ response.ok /\ res.cause = "validated"

\* Upstream statuses that are neither OK nor 402 nor 429
OtherStatus == {"http500", "http500_unreadable"}

\* What a fallback body tells about the failure: the reason in the description
\* of detect-disease, the message chosen by vision-detect
ReasonIn(f, body) == IF f = DETECT THEN body.description.from ELSE body.error.msg

\* An attempt that ends with such a status is followed by the next one while
\* attempts are left
OtherStatusRetried ==
    \A i \in 1..Len(calls) :
        (calls[i] \in OtherStatus /\ i <= MAX_RETRIES) =>
            \/ Len(calls) > i
            \/ pc = "backoff" /\ Len(delays) = i - 1
            \/ pc = "call" /\ Len(delays) = i

\* C37 as stated: a non-OK status other than 402 and 429 is retried until 3
\* attempts are used, and when the last attempt ends so the caller gets, with
\* status 200, a Fallback Result whose reason is the last recorded error.
C37_OtherStatusFallbackReason ==
    /\ OtherStatusRetried
    /\ (pc = "done" /\ Len(calls) = 1 + MAX_RETRIES /\ calls[Len(calls)] \in OtherStatus) =>
          /\ res.status = 200
          /\ res.cause = "retries_exhausted"
          /\ lastError = ErrorMessage(fn, calls[Len(calls)])
          /\ ReasonIn(fn, res.body) = lastError

\* C37, amended: as above, but the reason is the last recorded error in
\* detect-disease only; vision-detect answers with its generic error result,
\* which names no reason.
C37_OtherStatusFallback ==
    /\ OtherStatusRetried
    /\ (pc = "done" /\ Len(calls) = 1 + MAX_RETRIES /\ calls[Len(calls)] \in OtherStatus) =>
          /\ res.status = 200
          /\ res.cause = "retries_exhausted"
          /\ lastError = ErrorMessage(fn, calls[Len(calls)])
          /\ ReasonIn(fn, res.body) = IF fn = DETECT THEN lastError ELSE "generic"

\* Three attempts of detect-disease ended with the status 500
C37_Witness ==
    /\ fn = DETECT /\ pc = "done"
    /\ calls = <<"http500", "http500", "http500">>
    /\ res.status = 200
    /\ res.body.description.from = "AI gateway error: 500"

\* A request arrives in this step
Arrives == pc \in {"idle", "done"} /\ now' = now

\* C38: every request other than OPTIONS whose body is read has consumed one
\* admission of its key's window before; the admission stays consumed when
\* the request is then rejected for invalid input (status 400), so that a key
\* whose window has N admissions, however those requests ended, has its next
\* request rate-limited; an OPTIONS preflight never touches the limiter.
C38_InvalidRequestsCount ==
    [][/\ pc' = "body" =>
              /\ req'.method # "OPTIONS"
              /\ lastCall'.ok /\ lastCall'.key = req'.clientIP
              /\ rateLimitMap'[req'.clientIP].count =
                     IF lastCall'.fresh THEN 1 ELSE lastCall'.prevCount + 1
              /\ winAdmits'[req'.clientIP] <= RATE_LIMIT(fn)
       /\ (pc = "body" /\ pc' = "done") =>
              /\ UNCHANGED rlVars
              /\ res'.status \in {400, 500}
       /\ (Arrives /\ req'.method = "OPTIONS") =>
              /\ UNCHANGED rlVars
              /\ pc' = "done" /\ res'.cause = "preflight"
       /\ (Arrives /\ req'.method # "OPTIONS"
             /\ ~WindowOver(rateLimitMap, req'.clientIP, now)
             /\ winAdmits[req'.clientIP] = RATE_LIMIT(fn)) =>
              /\ pc' = "done" /\ res'.status = 429 /\ res'.cause = "rate_limited"
      ]_vars

\* The last admission of a window was consumed by a request that was then
\* rejected with status 400
C38_Witness ==
    /\ pc = "done" /\ res.status = 400
    /\ lastCall.ok /\ lastCall.key = req.clientIP
    /\ winAdmits[req.clientIP] = RATE_LIMIT(fn)
    /\ rateLimitMap[req.clientIP].count = RATE_LIMIT(fn)

\* C39: a caller of detect-disease that was rejected by the rate limiter and
\* makes its next request RETRY_AFTER_S seconds after the rejection is
\* admitted on that request, whenever the window was opened and whenever the
\* rejection occurred.
C39_RetryAfterIsEnough ==
    [][(/\ fn = DETECT
        /\ lastCall.key # "" /\ ~lastCall.ok
        /\ lastCall' # lastCall
        /\ lastCall'.key = lastCall.key
        /\ lastCall'.at = lastCall.at + 1000 * RETRY_AFTER_S) => lastCall'.ok
      ]_vars

====
